---- MODULE Spec2Model ----
(***************************************************************************)
(* LocalAI chat front-end: the session store (sid_create.py), the request  *)
(* handlers of routes.py (/api/send, /api/send_async, /api/history,        *)
(* /api/upload, /api/sessions) with their worker threads, and the legacy   *)
(* /api/send of Main.py.                                                   *)
(*                                                                         *)
(* Python values are modelled as follows.                                  *)
(*   str        a sequence of symbols; "<think>" and "</think>" are single *)
(*              symbols                                                    *)
(*   None / x   an option: << >> is None, <<x>> is the value x             *)
(*   dict       a function whose DOMAIN is the set of keys present         *)
(*   object     an index into heap (identity matters: a worker keeps the   *)
(*              dict it was started with, also after the session store     *)
(*              forgets it)                                                *)
(***************************************************************************)
EXTENDS Integers, Sequences, FiniteSets, TLC

\* ------------------------------------------------------------------ bounds
MaxReq == 1
MaxLines == 2
MaxObj == 3
MaxCalls == 3
MaxFairCalls == 2

\* ------------------------------------------------------------------ text
None == << >>
Some(x) == <<x>>

OPEN_TAG == "<think>"
CLOSE_TAG == "</think>"

IsSpace(c) == c = " "

RECURSIVE LStrip(_)
LStrip(t) == IF t # << >> /\ IsSpace(Head(t)) THEN LStrip(Tail(t)) ELSE t

RECURSIVE RStrip(_)
RStrip(t) ==
    IF t # << >> /\ IsSpace(t[Len(t)]) THEN RStrip(SubSeq(t, 1, Len(t) - 1)) ELSE t

\* str.strip()
Unstripped(t) == t
Strip(t) == RStrip(LStrip(t))

\* str.find(sym): 0-based index of the first occurrence, -1 when absent
Find(t, sym) ==
    IF \E i \in 1..Len(t) : t[i] = sym
    THEN (CHOOSE i \in 1..Len(t) : t[i] = sym /\ \A j \in 1..(i - 1) : t[j] # sym) - 1
    ELSE -1

RECURSIVE Join(_)
\* "".join(parts)
Join(parts) == IF parts = << >> THEN << >> ELSE Head(parts) \o Join(Tail(parts))

\* logic.split_thinking: [thinking, answer, has_thinking]
split_thinking(text) ==
    LET start == Find(text, OPEN_TAG)
        end == Find(text, CLOSE_TAG)
    IN  IF start # -1 /\ end # -1 /\ end > start
        THEN [thinking |-> Some(Strip(SubSeq(text, start + 2, end))),
              answer |-> Strip(SubSeq(text, 1, start) \o SubSeq(text, end + 2, Len(text))),
              has_thinking |-> TRUE]
        ELSE [thinking |-> None, answer |-> Strip(text), has_thinking |-> FALSE]

\* ------------------------------------------------------------------ dicts
EmptyDict == << >>

Has(d, k) == k \in DOMAIN d

\* dict.setdefault(k, v)
SetDefault(d, k, v) == IF Has(d, k) THEN d ELSE d @@ (k :> v)

\* d[k] = v
Put(d, k, v) == [x \in (DOMAIN d) \cup {k} |-> IF x = k THEN v ELSE d[x]]

\* d.pop(k, None)
Pop(d, k) == [x \in (DOMAIN d) \ {k} |-> d[x]]

\* ------------------------------------------------------------------ session ids
SafeChars == {"a", "b", "-", "_"}

\* the identifiers clients send; <<"a", "!">> is "a!"
SessionIds == {<<"a">>, <<"a", "!">>}

DefaultName == <<"d", "e", "f", "a", "u", "l", "t">>

IsSafe(c) == c \in SafeChars

\* sid_create._sanitize_session_id
sanitize_session_id(session_id) ==
    LET safe == SelectSeq(session_id, IsSafe)
    IN  IF safe = << >> THEN DefaultName ELSE safe

\* sid_create._session_path: the file name (without directory and suffix)
session_path(session_id) == sanitize_session_id(session_id)

FileNames == {session_path(i) : i \in SessionIds}

\* ------------------------------------------------------------------ state dicts
USE_SEARCH_DEFAULT == TRUE
USE_URL_FETCH_DEFAULT == FALSE
AUTO_FETCH_TOP_RESULT_DEFAULT == TRUE

\* Config.apply_defaults
apply_defaults(state) ==
    SetDefault(SetDefault(SetDefault(SetDefault(SetDefault(SetDefault(state,
        "history", << >>),
        "use_search", USE_SEARCH_DEFAULT),
        "use_url_fetch", USE_URL_FETCH_DEFAULT),
        "auto_fetch_top_result", AUTO_FETCH_TOP_RESULT_DEFAULT),
        "file_context", << >>),
        "user_location", None)

\* a history entry: Python appends tuples, json.loads returns lists
Turn(role, text) == [role |-> role, text |-> text, kind |-> "tuple"]

AsList(e) == [e EXCEPT !.kind = "list"]

\* ------------------------------------------------------------------ files
Absent == << >>
Empty == <<"empty">>
Partial == <<"partial">>
Doc(v) == <<"doc", v>>

\* json.dumps(state): tuples are written as arrays
DumpsDropsLocation(state) ==
    LET s == Pop(state, "user_location")
    IN  IF Has(s, "history")
        THEN [s EXCEPT !["history"] = [i \in 1..Len(@) |-> AsList(@[i])]]
        ELSE s
json_dumps(state) ==
    IF Has(state, "history")
    THEN [state EXCEPT !["history"] = [i \in 1..Len(@) |-> AsList(@[i])]]
    ELSE state

\* sid_create.load_session on the content of the session file
load_session(content) ==
    IF content # Absent /\ content[1] = "doc" THEN content[2] ELSE EmptyDict


\* ------------------------------------------------------------------ inputs
Prompts == {<<"news">>, <<" ">>}
Errs == {<<"boom">>}
EMPTY_RESPONSE == <<"empty response">>

\* fragments of the backend's `response` field (the empty one included)
Frags == {<< >>, <<"x">>, <<OPEN_TAG, "r", CLOSE_TAG, "y">>}

\* payload `location`: null, a dict with both coordinates, a dict without lon
PNull == None
PLoc == Some(("lat" :> 1) @@ ("lon" :> 2))
PBad == Some(("lat" :> 1))
Locations == {PNull, PLoc, PBad}

\* ------------------------------------------------------------------ state
VARIABLES
    heap,           \* the state dicts, by object index
    StateMap,       \* the STATE dict (of sid_create, or of Main): session id -> object index
    files,          \* sessions/<name>.json: content by name
    tmps,           \* sessions/<name>.tmp: content by name
    pc,             \* thread -> position; thread 0 is the serving loop, r the worker of request r
    sv,             \* thread -> frame of its save_session call
    lp,             \* frame of the handler the serving loop is running
    reqs,           \* the requests accepted so far (request r has job id r)
    current_state,  \* Debug._current_state: object index, 0 when unattached
    deleted,        \* the session ids whose delete_session returned in the last step
    calls,          \* the number of requests the serving loop has taken
    scope,          \* the inputs of this run: session ids, fragments, locations, search flags
    up,             \* the upload whose handler awaits file.read(): its session id, or None
    call            \* the frame of the library function under study: arguments, position, result

vars == <<heap, StateMap, files, tmps, pc, sv, lp, reqs, current_state, deleted, calls, scope, up, call>>

\* two sessions whose ids share a file, or one session with every kind of payload and fragment,
\* or one session with uploads
\* (the app of routes.py and the app of Main.py are two programs: a run is of one of them)
StoreScope == [app |-> "routes", ids |-> SessionIds, frags |-> {<< >>, <<"x">>},
               locs |-> {PNull}, flags |-> {FALSE}, uploads |-> FALSE, calls |-> MaxCalls]
StreamScope == [app |-> "routes", ids |-> {<<"a", "!">>}, frags |-> Frags,
                locs |-> Locations, flags |-> BOOLEAN, uploads |-> FALSE, calls |-> MaxCalls]
UploadScope == [app |-> "routes", ids |-> {<<"a">>}, frags |-> {<<"x">>},
                locs |-> {PNull}, flags |-> {FALSE}, uploads |-> TRUE, calls |-> MaxCalls]
MainScope == [app |-> "Main", ids |-> {<<"a", "!">>}, frags |-> Frags,
              locs |-> {PNull}, flags |-> BOOLEAN, uploads |-> FALSE, calls |-> MaxCalls]
\* one session whose backend answers with a reasoning block and nothing, or blanks, after it
ThinkScope == [app |-> "routes", ids |-> {<<"a", "!">>},
               frags |-> {<<OPEN_TAG, "r", CLOSE_TAG>>, <<" ">>},
               locs |-> {PNull}, flags |-> {FALSE}, uploads |-> FALSE, calls |-> MaxFairCalls]
\* one session that an earlier run of the server saved with the location of its client
LocatedScope == [app |-> "routes", ids |-> {<<"a", "!">>}, frags |-> {<<"x">>},
                 locs |-> Locations, flags |-> {FALSE}, uploads |-> FALSE, calls |-> MaxFairCalls]
Scopes == {StoreScope, StreamScope, UploadScope, MainScope, ThinkScope, LocatedScope}

\* the sessions directory when the server starts
StoredSessions(sc) ==
    [n \in FileNames |->
        IF sc = LocatedScope /\ n = session_path(<<"a", "!">>)
        THEN <<"doc", json_dumps(Put(apply_defaults(EmptyDict), "user_location", PLoc))>>
        ELSE Absent]

\* the runs whose every fair behaviour is followed to its end: fewer calls of the API
FairRoutesScope == [app |-> "routes", ids |-> {<<"a", "!">>}, frags |-> {<< >>, <<"x">>},
                    locs |-> {PNull}, flags |-> {FALSE}, uploads |-> TRUE,
                    calls |-> MaxFairCalls]
FairMainScope == [MainScope EXCEPT !.calls = MaxFairCalls]
FairScopes == {FairRoutesScope, FairMainScope}

LOOP == 0
\* no library function is under study
NoCall == [fn |-> "none"]
Threads == 0..MaxReq

NoFrame == [obj |-> 0, name |-> << >>, doc |-> Absent, fd |-> "none", cont |-> "none"]
NoHandler == [op |-> "none"]

NoRequests(scopes) ==
    /\ heap = << >>
    /\ StateMap = EmptyDict
    /\ scope \in scopes
    /\ files = StoredSessions(scope)
    /\ tmps = [n \in FileNames |-> Absent]
    /\ pc = [t \in Threads |-> IF t = LOOP THEN "idle" ELSE "unborn"]
    /\ sv = [t \in Threads |-> NoFrame]
    /\ lp = NoHandler
    /\ reqs = << >>
    /\ current_state = 0
    /\ deleted = {}
    /\ calls = 0
    /\ up = None

InitIn(scopes) ==
    /\ NoRequests(scopes)
    /\ call = NoCall

Init == InitIn(Scopes)

\* ------------------------------------------------------------------ save_session
\* sid_create.save_session is entered: the frame of the call
CallSave(t, session_id, obj, cont) ==
    /\ pc' = [pc EXCEPT ![t] = "save_open"]
    /\ sv' = [sv EXCEPT ![t] = [obj |-> obj, name |-> session_path(session_id),
                                doc |-> Absent, fd |-> "none", cont |-> cont]]

\* what a write of doc at offset 0 leaves in a file that holds old:
\* the document, or a mix when old was longer
WriteOver(old, doc) ==
    IF old \in {Empty, Absent, doc} THEN {doc} ELSE {doc, Partial}

\* json.dumps(state), then tmp.write_text opens tmp for writing (creates or truncates it)
SaveOpen(t) ==
    /\ pc[t] = "save_open"
    /\ sv' = [sv EXCEPT ![t].doc = Doc(json_dumps(heap[sv[t].obj])), ![t].fd = "tmp"]
    /\ tmps' = [tmps EXCEPT ![sv[t].name] = Empty]
    /\ pc' = [pc EXCEPT ![t] = "save_write"]
    /\ deleted' = {}
    /\ UNCHANGED <<scope, up, call>>
    /\ UNCHANGED <<heap, StateMap, files, lp, reqs, current_state, calls>>

\* tmp.write_text writes through its descriptor and closes it
SaveWrite(t) ==
    /\ pc[t] = "save_write"
    /\ \/ /\ sv[t].fd = "tmp"
          /\ \E c \in WriteOver(tmps[sv[t].name], sv[t].doc) :
                tmps' = [tmps EXCEPT ![sv[t].name] = c]
          /\ UNCHANGED files
       \/ /\ sv[t].fd = "file"
          /\ \E c \in WriteOver(files[sv[t].name], sv[t].doc) :
                files' = [files EXCEPT ![sv[t].name] = c]
          /\ UNCHANGED tmps
       \/ /\ sv[t].fd = "gone"
          /\ UNCHANGED <<files, tmps>>
    /\ sv' = [sv EXCEPT ![t].fd = "none"]
    /\ pc' = [pc EXCEPT ![t] = "save_replace"]
    /\ deleted' = {}
    /\ UNCHANGED <<scope, up, call>>
    /\ UNCHANGED <<heap, StateMap, lp, reqs, current_state, calls>>

\* the descriptors other threads hold after the rename of tmp over the file
AfterRename(frames, t, name) ==
    [u \in Threads |->
        IF u = t THEN NoFrame
        ELSE IF frames[u].name = name /\ frames[u].fd = "tmp" THEN [frames[u] EXCEPT !.fd = "file"]
        ELSE IF frames[u].name = name /\ frames[u].fd = "file" THEN [frames[u] EXCEPT !.fd = "gone"]
        ELSE frames[u]]

\* tmp.replace(path); a missing tmp raises, which save_session catches and prints
SaveReplace(t) ==
    /\ pc[t] = "save_replace"
    /\ IF tmps[sv[t].name] = Absent
       THEN /\ UNCHANGED <<files, tmps>>
            /\ sv' = [sv EXCEPT ![t] = NoFrame]
       ELSE /\ files' = [files EXCEPT ![sv[t].name] = tmps[sv[t].name]]
            /\ tmps' = [tmps EXCEPT ![sv[t].name] = Absent]
            /\ sv' = AfterRename(sv, t, sv[t].name)
    /\ pc' = [pc EXCEPT ![t] = sv[t].cont]
    /\ deleted' = {}
    /\ UNCHANGED <<scope, up, call>>
    /\ UNCHANGED <<heap, StateMap, lp, reqs, current_state, calls>>

\* ------------------------------------------------------------------ get_state
\* sid_create.get_state up to its save_session call: the object of the session
\* and the heap and the map after it
GetStateObj(session_id) ==
    IF Has(StateMap, session_id) THEN StateMap[session_id] ELSE Len(heap) + 1

GetStateHeap(session_id) ==
    IF Has(StateMap, session_id)
    THEN [heap EXCEPT ![StateMap[session_id]] = apply_defaults(@)]
    ELSE Append(heap, apply_defaults(load_session(files[session_path(session_id)])))

GetStateMap(session_id) == Put(StateMap, session_id, GetStateObj(session_id))

CanGetState(session_id) == Has(StateMap, session_id) \/ Len(heap) < MaxObj

\* GET /api/history: get_state(session_id) ...
HistoryBegin(session_id) ==
    /\ scope.app = "routes"
    /\ pc[LOOP] = "idle"
    /\ calls < scope.calls
    /\ calls' = calls + 1
    /\ CanGetState(session_id)
    /\ heap' = GetStateHeap(session_id)
    /\ StateMap' = GetStateMap(session_id)
    /\ lp' = [op |-> "history", obj |-> GetStateObj(session_id)]
    /\ CallSave(LOOP, session_id, GetStateObj(session_id), "history_ret")
    /\ deleted' = {}
    /\ UNCHANGED <<scope, up, call>>
    /\ UNCHANGED <<files, tmps, reqs, current_state>>

\* ... attach_state(state) and the response
HistoryReturn ==
    /\ pc[LOOP] = "history_ret"
    /\ current_state' = lp.obj
    /\ lp' = NoHandler
    /\ pc' = [pc EXCEPT ![LOOP] = "idle"]
    /\ deleted' = {}
    /\ UNCHANGED <<scope, up, call>>
    /\ UNCHANGED <<heap, StateMap, files, tmps, sv, reqs, calls>>

\* ------------------------------------------------------------------ /api/upload
UploadedText == <<"f">>

\* upload_files: get_state(session_id) ...
UploadBegin(session_id) ==
    /\ scope.app = "routes"
    /\ scope.uploads
    /\ pc[LOOP] = "idle"
    /\ up = None
    /\ calls < scope.calls
    /\ calls' = calls + 1
    /\ CanGetState(session_id)
    /\ heap' = GetStateHeap(session_id)
    /\ StateMap' = GetStateMap(session_id)
    /\ lp' = [op |-> "upload", sid |-> session_id, obj |-> GetStateObj(session_id)]
    /\ CallSave(LOOP, session_id, GetStateObj(session_id), "upload_read")
    /\ deleted' = {}
    /\ UNCHANGED <<files, tmps, reqs, current_state, scope, up, call>>

\* ... attach_state, and the handler awaits file.read(): the loop is free meanwhile ...
UploadRead ==
    /\ pc[LOOP] = "upload_read"
    /\ current_state' = lp.obj
    /\ up' = Some([sid |-> lp.sid, obj |-> lp.obj])
    /\ lp' = NoHandler
    /\ pc' = [pc EXCEPT ![LOOP] = "idle"]
    /\ deleted' = {}
    /\ UNCHANGED <<heap, StateMap, files, tmps, sv, reqs, calls, scope, call>>

\* ... the text of the file is appended to file_context, save_session ...
UploadStore ==
    /\ pc[LOOP] = "idle"
    /\ up # None
    /\ heap' = [heap EXCEPT ![up[1].obj] = Put(@, "file_context", @["file_context"] \o UploadedText)]
    /\ lp' = [op |-> "upload", sid |-> up[1].sid, obj |-> up[1].obj]
    /\ up' = None
    /\ CallSave(LOOP, up[1].sid, up[1].obj, "upload_ret")
    /\ deleted' = {}
    /\ UNCHANGED <<StateMap, files, tmps, reqs, current_state, calls, scope, call>>

\* ... and the response
UploadReturn ==
    /\ pc[LOOP] = "upload_ret"
    /\ lp' = NoHandler
    /\ pc' = [pc EXCEPT ![LOOP] = "idle"]
    /\ deleted' = {}
    /\ UNCHANGED <<heap, StateMap, files, tmps, sv, reqs, current_state, calls, scope, up, call>>

\* ------------------------------------------------------------------ delete_session
\* sid_create.delete_session: StateMap.pop(sid) and the unlink of the file
delete_memory(session_id) == Pop(StateMap, sanitize_session_id(session_id))

AfterUnlink(frames, name) ==
    [u \in Threads |->
        IF frames[u].name = name /\ frames[u].fd = "file"
        THEN [frames[u] EXCEPT !.fd = "gone"] ELSE frames[u]]

DeleteSession(session_id) ==
    /\ scope.app = "routes"
    /\ pc[LOOP] = "idle"
    /\ calls < scope.calls
    /\ calls' = calls + 1
    /\ StateMap' = delete_memory(session_id)
    /\ files' = [files EXCEPT ![session_path(sanitize_session_id(session_id))] = Absent]
    /\ sv' = AfterUnlink(sv, session_path(sanitize_session_id(session_id)))
    /\ deleted' = {session_id}
    /\ UNCHANGED <<scope, up, call>>
    /\ UNCHANGED <<heap, tmps, pc, lp, reqs, current_state>>

\* ------------------------------------------------------------------ pipeline on a state dict
Overlay(d, upd) == [k \in DOMAIN d |-> IF k \in DOMAIN upd THEN upd[k] ELSE d[k]]

\* state["jobs"][request_id][k] = upd[k] for every k of upd
SetJob(state, request_id, upd) ==
    Put(state, "jobs", Put(state["jobs"], request_id, Overlay(state["jobs"][request_id], upd)))

\* state["pending_requests"].pop(request_id, None)
KeepPending(state, request_id) == state
PopPending(state, request_id) ==
    Put(state, "pending_requests", Pop(state["pending_requests"], request_id))

\* state["history"].append((role, text))
AppendCutsHistory(state, role, text) == Put(state, "history", <<Turn(role, text)>>)
AppendHistory(state, role, text) == Put(state, "history", Append(state["history"], Turn(role, text)))

\* routes.send / send_async: the flags and the location of the payload
ApplyPayloadClears(state, use_search, location, location_failed) ==
    LET flag == IF location_failed THEN FALSE ELSE use_search
        s == Put(Put(state, "use_search", flag), "auto_fetch_top_result", flag)
    IN  IF location # None /\ Has(location[1], "lat") /\ Has(location[1], "lon")
        THEN Put(s, "user_location", location)
        ELSE Put(s, "user_location", None)
ApplyPayload(state, use_search, location, location_failed) ==
    LET flag == IF location_failed THEN FALSE ELSE use_search
        s == Put(Put(state, "use_search", flag), "auto_fetch_top_result", flag)
    IN  IF location # None /\ Has(location[1], "lat") /\ Has(location[1], "lon")
        THEN Put(s, "user_location", location)
        ELSE IF location = None THEN s
        ELSE Put(s, "user_location", None)

\* routes.send / send_async: the pending request and the job record of a new request
CreateJob(state, request_id, prompt) ==
    LET s == SetDefault(SetDefault(state, "pending_requests", EmptyDict), "jobs", EmptyDict)
    IN  Put(Put(s, "pending_requests", Put(s["pending_requests"], request_id, [prompt |-> prompt])),
            "jobs", Put(s["jobs"], request_id,
                        [id |-> request_id, prompt |-> prompt, status |-> "running",
                         answer |-> << >>, raw |-> << >>, thinking |-> Some(<< >>),
                         error |-> << >>]))

\* send.model_worker, the except block: the job record
SyncExcept(state, request_id, e) ==
    SetJob(state, request_id, [status |-> "error", error |-> e])

\* send.model_worker, the finally block: the state dict before save_session
SyncFinally(state, request_id, acc, saved) ==
    LET sp == split_thinking(acc)
    IN  IF acc # << >>
        THEN IF ~saved
             THEN SetJob(PopPending(AppendHistory(state, "assistant", acc), request_id),
                         request_id,
                         [status |-> "done", raw |-> acc, thinking |-> sp.thinking,
                          answer |-> IF sp.has_thinking THEN sp.answer ELSE acc])
             ELSE state
        ELSE SetJob(PopPending(state, request_id), request_id,
                    [status |-> "error", error |-> EMPTY_RESPONSE])

\* send.model_worker, the finally block: the result dict (saved is set after save_session)
SyncResult(result, acc) ==
    LET sp == split_thinking(acc)
    IN  IF acc # << >>
        THEN [result EXCEPT !.acc = acc, !.thinking = sp.thinking,
                            !.answer = IF sp.has_thinking THEN sp.answer ELSE acc,
                            !.has_thinking = sp.has_thinking]
        ELSE result

\* send_async.model_worker_async, after the read loop
AsyncDone(state, request_id, acc) ==
    LET sp == split_thinking(acc)
    IN  SetJob(PopPending(AppendHistory(state, "assistant", acc), request_id), request_id,
               [status |-> "done", raw |-> acc, thinking |-> sp.thinking,
                answer |-> IF sp.has_thinking THEN sp.answer ELSE acc])

\* send_async.model_worker_async, the except block
AsyncExceptKeepsStatus(state, request_id, e) == PopPending(state, request_id)
AsyncExcept(state, request_id, e) ==
    SetJob(PopPending(state, request_id), request_id, [status |-> "error", error |-> e])

\* logic._needs_search: a keyword of the recency list occurs in the prompt
FreshKeywords == {"news", "today"}
needs_search(prompt) == \E i \in 1..Len(prompt) : prompt[i] \in FreshKeywords

\* ------------------------------------------------------------------ /api/send
NewResult == [acc |-> << >>, thinking |-> Some(<< >>), answer |-> << >>,
              has_thinking |-> FALSE, saved |-> FALSE]

Item(type, text) == [type |-> type, text |-> text]

NewRequest(kind, session_id, obj, prompt) ==
    [kind |-> kind, sid |-> session_id, obj |-> obj, prompt |-> prompt,
     acc_parts |-> << >>, result |-> NewResult, queue |-> << >>, out |-> << >>,
     cpc |-> "none", recv |-> << >>, raised |-> FALSE, err |-> None,
     requested |-> FALSE, performed |-> FALSE, search_error |-> None, timed_out |-> FALSE]

\* the request whose handler the loop runs / the next request id (uuid4: a fresh one)
NextId == Len(reqs) + 1

\* send: payload, prompt check, get_state(session_id) ...
SendBegin(session_id, prompt, use_search, location, location_failed) ==
    /\ scope.app = "routes"
    /\ pc[LOOP] = "idle"
    /\ calls < scope.calls
    /\ calls' = calls + 1
    /\ Len(reqs) < MaxReq
    /\ deleted' = {}
    /\ UNCHANGED <<scope, up, call>>
    /\ IF Strip(prompt) = << >> \/ session_id = << >>
       THEN \* HTTPException 400
            UNCHANGED <<heap, StateMap, files, tmps, pc, sv, lp, reqs, current_state>>
       ELSE /\ CanGetState(session_id)
            /\ heap' = GetStateHeap(session_id)
            /\ StateMap' = GetStateMap(session_id)
            /\ lp' = [op |-> "send", sid |-> session_id, obj |-> GetStateObj(session_id),
                      prompt |-> Strip(prompt), use_search |-> use_search,
                      location |-> location, location_failed |-> location_failed]
            /\ CallSave(LOOP, session_id, GetStateObj(session_id), "send_mutate")
            /\ UNCHANGED <<files, tmps, reqs, current_state>>

\* ... attach_state, the flags, the location, the user turn, save_session ...
SendMutate ==
    /\ pc[LOOP] = "send_mutate"
    /\ current_state' = lp.obj
    /\ heap' = [heap EXCEPT ![lp.obj] =
                  AppendHistory(ApplyPayload(@, lp.use_search, lp.location, lp.location_failed),
                                "user", lp.prompt)]
    /\ CallSave(LOOP, lp.sid, lp.obj, "send_job")
    /\ deleted' = {}
    /\ UNCHANGED <<scope, up, call>>
    /\ UNCHANGED <<StateMap, files, tmps, lp, reqs, calls>>

\* ... the queue, the result dict, the pending request and the job, save_session ...
SendJob ==
    /\ pc[LOOP] = "send_job"
    /\ heap' = [heap EXCEPT ![lp.obj] = CreateJob(@, NextId, lp.prompt)]
    /\ reqs' = Append(reqs, NewRequest("sync", lp.sid, lp.obj, lp.prompt))
    /\ CallSave(LOOP, lp.sid, lp.obj, "send_gather")
    /\ deleted' = {}
    /\ UNCHANGED <<scope, up, call>>
    /\ UNCHANGED <<StateMap, files, tmps, lp, current_state, calls>>

\* logic.gather_context: the search decision read from the attached state, and the
\* outcome of the search (error and timed_out) when one is due
GatherOutcomes(attached, prompt) ==
    LET use_search == IF Has(attached, "use_search") THEN attached["use_search"] ELSE FALSE
        should_search == use_search /\ needs_search(prompt)
    IN  { [requested |-> use_search, performed |-> should_search,
           search_error |-> o[1], timed_out |-> o[2]] :
          o \in IF should_search
                THEN {<<None, FALSE>>, <<Some(<<"search failed">>), FALSE>>,
                      <<Some(<<"budget exceeded">>), TRUE>>}
                ELSE {<<None, FALSE>>} }

WithGather(r, g) ==
    [r EXCEPT !.requested = g.requested, !.performed = g.performed,
              !.search_error = g.search_error, !.timed_out = g.timed_out]

\* ... push_status, gather_context, the prompt, the worker thread, the response
SendGather ==
    /\ pc[LOOP] = "send_gather"
    /\ \E g \in GatherOutcomes(heap[current_state], lp.prompt) :
        reqs' = [reqs EXCEPT ![Len(reqs)] =
                    [WithGather(@, g) EXCEPT
                        !.queue = @ \o <<Item("status", <<"Preparing request">>),
                                         Item("status", <<"search or skip">>),
                                         Item("status", <<"Building prompt">>)>>,
                        !.cpc = "start"]]
    /\ pc' = [pc EXCEPT ![LOOP] = "idle", ![Len(reqs)] = "w_start"]
    /\ lp' = NoHandler
    /\ deleted' = {}
    /\ UNCHANGED <<scope, up, call>>
    /\ UNCHANGED <<heap, StateMap, files, tmps, sv, current_state, calls>>

\* model_worker: get_ollama_endpoint and requests.post succeed (push_status) or raise
WorkerStart(r) ==
    /\ pc[r] = "w_start"
    /\ \/ /\ reqs' = [reqs EXCEPT ![r].queue = Append(@, Item("status", <<"Generating response">>))]
          /\ pc' = [pc EXCEPT ![r] = "w_read"]
       \/ \E e \in Errs :
          /\ reqs' = [reqs EXCEPT ![r].raised = TRUE, ![r].err = Some(e)]
          /\ pc' = [pc EXCEPT ![r] = "w_except"]
    /\ deleted' = {}
    /\ UNCHANGED <<scope, up, call>>
    /\ UNCHANGED <<heap, StateMap, files, tmps, sv, lp, current_state, calls>>

\* acc_parts after a line: `if chunk: acc_parts.append(chunk)`
AccParts(acc_parts, chunk) == IF chunk # << >> THEN Append(acc_parts, chunk) ELSE acc_parts

\* the token a line puts on the queue
TokenOfAnyChunk(chunk) == <<Item("token", chunk)>>
TokenItems(chunk) == IF chunk # << >> THEN <<Item("token", chunk)>> ELSE << >>

\* model_worker: one line of r.iter_lines()
WorkerLine(r, chunk, done) ==
    /\ pc[r] = "w_read"
    /\ Len(reqs[r].recv) < MaxLines
    /\ reqs' = [reqs EXCEPT ![r].acc_parts = AccParts(@, chunk),
                            ![r].queue = @ \o TokenItems(chunk),
                            ![r].recv = Append(@, chunk)]
    /\ pc' = [pc EXCEPT ![r] = IF done THEN "w_finally" ELSE "w_read"]
    /\ deleted' = {}
    /\ UNCHANGED <<scope, up, call>>
    /\ UNCHANGED <<heap, StateMap, files, tmps, sv, lp, current_state, calls>>

\* model_worker: the response ends without a done line
WorkerEof(r) ==
    /\ pc[r] = "w_read"
    /\ pc' = [pc EXCEPT ![r] = "w_finally"]
    /\ deleted' = {}
    /\ UNCHANGED <<scope, up, call>>
    /\ UNCHANGED <<heap, StateMap, files, tmps, sv, lp, reqs, current_state, calls>>

\* model_worker: the read, or json.loads of a line, raises
WorkerRaise(r, e) ==
    /\ pc[r] = "w_read"
    /\ reqs' = [reqs EXCEPT ![r].raised = TRUE, ![r].err = Some(e)]
    /\ pc' = [pc EXCEPT ![r] = "w_except"]
    /\ deleted' = {}
    /\ UNCHANGED <<scope, up, call>>
    /\ UNCHANGED <<heap, StateMap, files, tmps, sv, lp, current_state, calls>>

\* model_worker: the except block
WorkerExcept(r) ==
    /\ pc[r] = "w_except"
    /\ reqs' = [reqs EXCEPT ![r].queue = Append(@, Item("error", reqs[r].err[1]))]
    /\ heap' = [heap EXCEPT ![reqs[r].obj] = SyncExcept(@, r, reqs[r].err[1])]
    /\ pc' = [pc EXCEPT ![r] = "w_finally"]
    /\ deleted' = {}
    /\ UNCHANGED <<scope, up, call>>
    /\ UNCHANGED <<StateMap, files, tmps, sv, lp, current_state, calls>>

\* model_worker: the finally block up to its save_session call
WorkerFinally(r) ==
    /\ pc[r] = "w_finally"
    /\ LET acc == Join(reqs[r].acc_parts)
       IN  /\ reqs' = [reqs EXCEPT ![r].result = SyncResult(@, acc)]
           /\ heap' = [heap EXCEPT ![reqs[r].obj] = SyncFinally(@, r, acc, reqs[r].result.saved)]
    /\ CallSave(r, reqs[r].sid, reqs[r].obj, "w_end")
    /\ deleted' = {}
    /\ UNCHANGED <<scope, up, call>>
    /\ UNCHANGED <<StateMap, files, tmps, lp, current_state, calls>>

\* what the finally block puts on the queue last
FinallyWithoutEnd == <<Item("status", <<"Finalizing output">>)>>
FinallyItems == <<Item("status", <<"Finalizing output">>), Item("end", << >>)>>

\* model_worker: result["saved"], push_status and the end sentinel
WorkerEnd(r) ==
    /\ pc[r] = "w_end"
    /\ reqs' = [reqs EXCEPT ![r].result.saved = (reqs[r].result.acc # << >>),
                            ![r].queue = @ \o FinallyItems]
    /\ pc' = [pc EXCEPT ![r] = "done"]
    /\ deleted' = {}
    /\ UNCHANGED <<scope, up, call>>
    /\ UNCHANGED <<heap, StateMap, files, tmps, sv, lp, current_state, calls>>

\* ------------------------------------------------------------------ send.event_stream
Event(type, fields) == [type |-> type] @@ fields

\* event_stream before its loop: the job event and the notices
StreamStart(r) ==
    /\ pc[LOOP] = "idle"
    /\ r \in 1..Len(reqs)
    /\ reqs[r].cpc = "start"
    /\ reqs' = [reqs EXCEPT
                  ![r].out = @ \o <<Event("job", [job_id |-> r])>>
                        \o (IF reqs[r].search_error # None
                            THEN <<Event("notice", [text |-> reqs[r].search_error[1]])>>
                            ELSE << >>)
                        \o (IF reqs[r].timed_out
                            THEN <<Event("notice", [text |-> <<"capped">>])>>
                            ELSE << >>),
                  ![r].cpc = "loop"]
    /\ deleted' = {}
    /\ UNCHANGED <<scope, up, call>>
    /\ UNCHANGED <<heap, StateMap, files, tmps, pc, sv, lp, current_state, calls>>

\* the final event of routes.send.event_stream
FinalEvent(r) ==
    LET acc == IF reqs[r].result.acc # << >> THEN reqs[r].result.acc ELSE Join(reqs[r].acc_parts)
    IN  Event("final", [raw |-> acc,
                        answer |-> IF reqs[r].result.answer # << >> THEN reqs[r].result.answer ELSE acc,
                        thinking |-> reqs[r].result.thinking])

\* the item types after which event_stream leaves its loop
BreaksOnEndOnly == {"end"}
BreakTypes == {"error", "end"}

RECURSIVE SkipIgnored(_)
\* queue.get() until an item event_stream acts on: the others are dropped without a yield
SkipIgnored(q) ==
    IF q # << >> /\ Head(q).type \notin {"token", "error", "end"} THEN SkipIgnored(Tail(q)) ELSE q

\* event_stream: the items of the queue up to the next one it acts on
StreamItem(r) ==
    /\ pc[LOOP] = "idle"
    /\ r \in 1..Len(reqs)
    /\ reqs[r].cpc = "loop"
    /\ reqs[r].queue # << >>
    /\ LET q == SkipIgnored(reqs[r].queue)
           item == Head(q)
           rest == Tail(q)
       IN  IF q = << >>
           THEN reqs' = [reqs EXCEPT ![r].queue = << >>]
           ELSE reqs' = [reqs EXCEPT
              ![r].queue =
                  IF item.type = "error" THEN Append(rest, Item("status", <<"Model error">>))
                  ELSE IF item.type = "end" THEN Append(rest, Item("status", <<"Done">>))
                  ELSE rest,
              ![r].out =
                  IF item.type = "token" THEN Append(@, Event("token", [text |-> item.text]))
                  ELSE IF item.type = "error" THEN Append(@, Event("error", [text |-> item.text]))
                  ELSE Append(@, FinalEvent(r)),
              ![r].cpc = IF item.type \in BreakTypes THEN "closed" ELSE "loop"]
    /\ deleted' = {}
    /\ UNCHANGED <<scope, up, call>>
    /\ UNCHANGED <<heap, StateMap, files, tmps, pc, sv, lp, current_state, calls>>

\* ------------------------------------------------------------------ /api/send_async
\* send_async: payload, prompt check, get_state(session_id) ...
SendAsyncBegin(session_id, prompt, use_search, location, location_failed) ==
    /\ scope.app = "routes"
    /\ pc[LOOP] = "idle"
    /\ calls < scope.calls
    /\ calls' = calls + 1
    /\ Len(reqs) < MaxReq
    /\ deleted' = {}
    /\ UNCHANGED <<scope, up, call>>
    /\ IF Strip(prompt) = << >> \/ session_id = << >>
       THEN \* HTTPException 400
            UNCHANGED <<heap, StateMap, files, tmps, pc, sv, lp, reqs, current_state>>
       ELSE /\ CanGetState(session_id)
            /\ heap' = GetStateHeap(session_id)
            /\ StateMap' = GetStateMap(session_id)
            /\ lp' = [op |-> "send_async", sid |-> session_id, obj |-> GetStateObj(session_id),
                      prompt |-> Strip(prompt), use_search |-> use_search,
                      location |-> location, location_failed |-> location_failed]
            /\ CallSave(LOOP, session_id, GetStateObj(session_id), "async_mutate")
            /\ UNCHANGED <<files, tmps, reqs, current_state>>

\* ... attach_state, the flags, the location, the user turn, the job, save_session ...
SendAsyncMutate ==
    /\ pc[LOOP] = "async_mutate"
    /\ current_state' = lp.obj
    /\ heap' = [heap EXCEPT ![lp.obj] =
                  CreateJob(AppendHistory(ApplyPayload(@, lp.use_search, lp.location,
                                                       lp.location_failed),
                                          "user", lp.prompt),
                            NextId, lp.prompt)]
    /\ reqs' = Append(reqs, NewRequest("async", lp.sid, lp.obj, lp.prompt))
    /\ CallSave(LOOP, lp.sid, lp.obj, "async_start")
    /\ deleted' = {}
    /\ UNCHANGED <<scope, up, call>>
    /\ UNCHANGED <<StateMap, files, tmps, lp, calls>>

\* ... the worker thread and the response {"job_id": request_id}
SendAsyncStart ==
    /\ pc[LOOP] = "async_start"
    /\ pc' = [pc EXCEPT ![LOOP] = "idle", ![Len(reqs)] = "a_start"]
    /\ lp' = NoHandler
    /\ deleted' = {}
    /\ UNCHANGED <<scope, up, call>>
    /\ UNCHANGED <<heap, StateMap, files, tmps, sv, reqs, current_state, calls>>

\* model_worker_async: gather_context, the prompt, get_ollama_endpoint, requests.post
AsyncStart(r) ==
    /\ pc[r] = "a_start"
    /\ \/ /\ \E g \in GatherOutcomes(heap[current_state], reqs[r].prompt) :
                reqs' = [reqs EXCEPT ![r] = WithGather(@, g)]
          /\ pc' = [pc EXCEPT ![r] = "a_read"]
       \/ \E e \in Errs :
          /\ reqs' = [reqs EXCEPT ![r].raised = TRUE, ![r].err = Some(e)]
          /\ pc' = [pc EXCEPT ![r] = "a_except"]
    /\ deleted' = {}
    /\ UNCHANGED <<scope, up, call>>
    /\ UNCHANGED <<heap, StateMap, files, tmps, sv, lp, current_state, calls>>

\* model_worker_async: one line of r.iter_lines()
AsyncLine(r, chunk, done) ==
    /\ pc[r] = "a_read"
    /\ Len(reqs[r].recv) < MaxLines
    /\ reqs' = [reqs EXCEPT ![r].acc_parts = AccParts(@, chunk),
                            ![r].recv = Append(@, chunk)]
    /\ pc' = [pc EXCEPT ![r] = IF done THEN "a_done" ELSE "a_read"]
    /\ deleted' = {}
    /\ UNCHANGED <<scope, up, call>>
    /\ UNCHANGED <<heap, StateMap, files, tmps, sv, lp, current_state, calls>>

\* model_worker_async: the response ends without a done line
AsyncEof(r) ==
    /\ pc[r] = "a_read"
    /\ pc' = [pc EXCEPT ![r] = "a_done"]
    /\ deleted' = {}
    /\ UNCHANGED <<scope, up, call>>
    /\ UNCHANGED <<heap, StateMap, files, tmps, sv, lp, reqs, current_state, calls>>

\* model_worker_async: the read, or json.loads of a line, raises
AsyncRaise(r, e) ==
    /\ pc[r] = "a_read"
    /\ reqs' = [reqs EXCEPT ![r].raised = TRUE, ![r].err = Some(e)]
    /\ pc' = [pc EXCEPT ![r] = "a_except"]
    /\ deleted' = {}
    /\ UNCHANGED <<scope, up, call>>
    /\ UNCHANGED <<heap, StateMap, files, tmps, sv, lp, current_state, calls>>

\* model_worker_async: after the read loop, up to save_session
AsyncFinish(r) ==
    /\ pc[r] = "a_done"
    /\ heap' = [heap EXCEPT ![reqs[r].obj] = AsyncDone(@, r, Join(reqs[r].acc_parts))]
    /\ CallSave(r, reqs[r].sid, reqs[r].obj, "done")
    /\ deleted' = {}
    /\ UNCHANGED <<scope, up, call>>
    /\ UNCHANGED <<StateMap, files, tmps, lp, reqs, current_state, calls>>

\* model_worker_async: the except block, up to save_session
AsyncFail(r) ==
    /\ pc[r] = "a_except"
    /\ heap' = [heap EXCEPT ![reqs[r].obj] = AsyncExcept(@, r, reqs[r].err[1])]
    /\ CallSave(r, reqs[r].sid, reqs[r].obj, "done")
    /\ deleted' = {}
    /\ UNCHANGED <<scope, up, call>>
    /\ UNCHANGED <<StateMap, files, tmps, lp, reqs, current_state, calls>>

\* ------------------------------------------------------------------ Main.py
\* Main.get_state: STATE.setdefault(session_id, {}) and apply_defaults, nothing on disk
MainGetStateHeap(session_id) ==
    IF Has(StateMap, session_id)
    THEN [heap EXCEPT ![StateMap[session_id]] = apply_defaults(@)]
    ELSE Append(heap, apply_defaults(EmptyDict))

\* Main.send: the whole handler (it has no job, no location and no save)
MainSend(session_id, prompt, use_search) ==
    /\ scope.app = "Main"
    /\ pc[LOOP] = "idle"
    /\ calls < scope.calls
    /\ calls' = calls + 1
    /\ Len(reqs) < MaxReq
    /\ deleted' = {}
    /\ UNCHANGED <<scope, up, call>>
    /\ IF Strip(prompt) = << >> \/ session_id = << >>
       THEN \* HTTPException 400
            UNCHANGED <<heap, StateMap, files, tmps, pc, sv, lp, reqs, current_state>>
       ELSE LET obj == GetStateObj(session_id)
                st == Put(Put(MainGetStateHeap(session_id)[obj], "use_search", use_search),
                          "auto_fetch_top_result", use_search)
            IN  /\ CanGetState(session_id)
                /\ heap' = [MainGetStateHeap(session_id) EXCEPT
                               ![obj] = AppendHistory(st, "user", Strip(prompt))]
                /\ StateMap' = GetStateMap(session_id)
                /\ current_state' = obj
                /\ \E g \in GatherOutcomes(st, Strip(prompt)) :
                      reqs' = Append(reqs,
                                [WithGather(NewRequest("main", session_id, obj, Strip(prompt)), g)
                                    EXCEPT !.cpc = "m_start"])
                /\ pc' = [pc EXCEPT ![NextId] = "m_read"]
                /\ UNCHANGED <<files, tmps, sv, lp>>

\* Main.send.model_worker: one line of r.iter_lines()
MainLine(r, chunk, done) ==
    /\ pc[r] = "m_read"
    /\ Len(reqs[r].recv) < MaxLines
    /\ reqs' = [reqs EXCEPT ![r].acc_parts = AccParts(@, chunk),
                            ![r].queue = @ \o TokenItems(chunk),
                            ![r].recv = Append(@, chunk)]
    /\ pc' = [pc EXCEPT ![r] = IF done THEN "m_finally" ELSE "m_read"]
    /\ deleted' = {}
    /\ UNCHANGED <<scope, up, call>>
    /\ UNCHANGED <<heap, StateMap, files, tmps, sv, lp, current_state, calls>>

\* Main.send.model_worker: the response ends without a done line
MainEof(r) ==
    /\ pc[r] = "m_read"
    /\ pc' = [pc EXCEPT ![r] = "m_finally"]
    /\ deleted' = {}
    /\ UNCHANGED <<scope, up, call>>
    /\ UNCHANGED <<heap, StateMap, files, tmps, sv, lp, reqs, current_state, calls>>

\* Main.send.model_worker: requests.post, the read or json.loads raises; the except block
MainRaise(r, e) ==
    /\ pc[r] = "m_read"
    /\ reqs' = [reqs EXCEPT ![r].raised = TRUE, ![r].err = Some(e),
                            ![r].queue = Append(@, Item("error", e))]
    /\ pc' = [pc EXCEPT ![r] = "m_finally"]
    /\ deleted' = {}
    /\ UNCHANGED <<scope, up, call>>
    /\ UNCHANGED <<heap, StateMap, files, tmps, sv, lp, current_state, calls>>

\* Main.send.model_worker: the finally block
MainFinally(r) ==
    /\ pc[r] = "m_finally"
    /\ reqs' = [reqs EXCEPT ![r].queue = Append(@, Item("end", << >>))]
    /\ pc' = [pc EXCEPT ![r] = "done"]
    /\ deleted' = {}
    /\ UNCHANGED <<scope, up, call>>
    /\ UNCHANGED <<heap, StateMap, files, tmps, sv, lp, current_state, calls>>

\* Main.send.event_stream before its loop: the notices
MainStreamStart(r) ==
    /\ pc[LOOP] = "idle"
    /\ r \in 1..Len(reqs)
    /\ reqs[r].cpc = "m_start"
    /\ reqs' = [reqs EXCEPT
                  ![r].out = @ \o (IF reqs[r].search_error # None
                                   THEN <<Event("notice", [text |-> reqs[r].search_error[1]])>>
                                   ELSE << >>)
                               \o (IF reqs[r].timed_out
                                   THEN <<Event("notice", [text |-> <<"capped">>])>>
                                   ELSE << >>),
                  ![r].cpc = "m_loop"]
    /\ deleted' = {}
    /\ UNCHANGED <<scope, up, call>>
    /\ UNCHANGED <<heap, StateMap, files, tmps, pc, sv, lp, current_state, calls>>

\* the final event of Main.send.event_stream
MainFinalEvent(acc) ==
    LET sp == split_thinking(acc)
    IN  Event("final", [raw |-> acc, answer |-> IF sp.has_thinking THEN sp.answer ELSE acc,
                        thinking |-> sp.thinking])

\* Main.send.event_stream: one item of the queue
MainStreamItem(r) ==
    /\ pc[LOOP] = "idle"
    /\ r \in 1..Len(reqs)
    /\ reqs[r].cpc = "m_loop"
    /\ reqs[r].queue # << >>
    /\ LET item == Head(reqs[r].queue)
           acc == Join(reqs[r].acc_parts)
       IN  /\ reqs' = [reqs EXCEPT
                  ![r].queue = Tail(@),
                  ![r].out =
                      IF item.type = "token" THEN Append(@, Event("token", [text |-> item.text]))
                      ELSE IF item.type = "error" THEN Append(@, Event("error", [text |-> item.text]))
                      ELSE Append(@, MainFinalEvent(acc)),
                  ![r].cpc = IF item.type \in BreakTypes THEN "closed" ELSE "m_loop"]
           /\ heap' = IF item.type = "end"
                      THEN [heap EXCEPT ![reqs[r].obj] = AppendHistory(@, "assistant", acc)]
                      ELSE heap
    /\ deleted' = {}
    /\ UNCHANGED <<scope, up, call>>
    /\ UNCHANGED <<StateMap, files, tmps, pc, sv, lp, current_state, calls>>

Next ==
    \/ \E t \in Threads : SaveOpen(t) \/ SaveWrite(t) \/ SaveReplace(t)
    \/ \E i \in scope.ids : HistoryBegin(i)
    \/ HistoryReturn
    \/ \E i \in scope.ids : DeleteSession(i)
    \/ \E i \in scope.ids : UploadBegin(i)
    \/ UploadRead
    \/ UploadStore
    \/ UploadReturn
    \/ \E i \in scope.ids \cup {<< >>}, p \in Prompts, u \in scope.flags, l \in scope.locs,
          f \in BOOLEAN :
          \/ SendBegin(i, p, u, l, f)
          \/ SendAsyncBegin(i, p, u, l, f)
    \/ SendMutate
    \/ SendJob
    \/ SendGather
    \/ SendAsyncMutate
    \/ SendAsyncStart
    \/ \E r \in 1..MaxReq :
          \/ WorkerStart(r)
          \/ \E c \in scope.frags, d \in BOOLEAN : WorkerLine(r, c, d)
          \/ WorkerEof(r)
          \/ \E e \in Errs : WorkerRaise(r, e)
          \/ WorkerExcept(r)
          \/ WorkerFinally(r)
          \/ WorkerEnd(r)
          \/ StreamStart(r)
          \/ StreamItem(r)
          \/ AsyncStart(r)
          \/ \E c \in scope.frags, d \in BOOLEAN : AsyncLine(r, c, d)
          \/ AsyncEof(r)
          \/ \E e \in Errs : AsyncRaise(r, e)
          \/ AsyncFinish(r)
          \/ AsyncFail(r)
    \/ \E i \in scope.ids \cup {<< >>}, p \in Prompts, u \in scope.flags : MainSend(i, p, u)
    \/ \E r \in 1..MaxReq :
          \/ \E c \in scope.frags, d \in BOOLEAN : MainLine(r, c, d)
          \/ MainEof(r)
          \/ \E e \in Errs : MainRaise(r, e)
          \/ MainFinally(r)
          \/ MainStreamStart(r)
          \/ MainStreamItem(r)

Spec == Init /\ [][Next]_vars

\* ------------------------------------------------------------------ round trip
\* a run of: get_state(id), save_session(id, state), the entry of memory dropped,
\* get_state(id) again; the states sessions are in when it starts
SavedStates ==
    LET fresh == apply_defaults(EmptyDict)
        sent == { CreateJob(AppendHistory(ApplyPayload(fresh, u, l, f), "user", <<"news">>),
                            1, <<"news">>) : u \in BOOLEAN, l \in Locations, f \in BOOLEAN }
        told == { SyncFinally(s1, 1, acc, FALSE) : s1 \in sent, acc \in Frags }
        failed == { AsyncExcept(s1, 1, e) : s1 \in sent, e \in Errs }
        filed == { Put(s1, "file_context", UploadedText) : s1 \in {fresh} \cup told }
    IN  {fresh} \cup sent \cup told \cup failed \cup filed

RoundTrip(session_id) == [op |-> "round_trip", sid |-> session_id, obj |-> 0]

RTInit ==
    /\ scope = StoreScope
    /\ \E id \in SessionIds, s \in SavedStates :
          \/ \* the session is in memory, and its file holds an earlier state or nothing
             /\ heap = <<s>>
             /\ StateMap = (id :> 1)
             /\ \/ files = [n \in FileNames |-> Absent]
                \/ files = [n \in FileNames |-> Doc(json_dumps(apply_defaults(EmptyDict)))]
             /\ lp = RoundTrip(id)
          \/ \* the session is on disk only
             /\ heap = << >>
             /\ StateMap = EmptyDict
             /\ files = [n \in FileNames |->
                            IF n = session_path(id) THEN Doc(json_dumps(s)) ELSE Absent]
             /\ lp = RoundTrip(id)
    /\ tmps = [n \in FileNames |-> Absent]
    /\ pc = [t \in Threads |-> IF t = LOOP THEN "rt_get" ELSE "unborn"]
    /\ sv = [t \in Threads |-> NoFrame]
    /\ reqs = << >>
    /\ current_state = 0
    /\ deleted = {}
    /\ calls = 0
    /\ up = None
    /\ call = NoCall

\* get_state(id): the state it returns is heap[lp.obj]
RTGetState ==
    /\ pc[LOOP] = "rt_get"
    /\ heap' = GetStateHeap(lp.sid)
    /\ StateMap' = GetStateMap(lp.sid)
    /\ lp' = [lp EXCEPT !.obj = GetStateObj(lp.sid)]
    /\ CallSave(LOOP, lp.sid, GetStateObj(lp.sid), "rt_save")
    /\ UNCHANGED <<files, tmps, reqs, current_state, deleted, calls, scope, up, call>>

\* save_session(id, state)
RTSave ==
    /\ pc[LOOP] = "rt_save"
    /\ CallSave(LOOP, lp.sid, lp.obj, "rt_drop")
    /\ UNCHANGED <<heap, StateMap, files, tmps, lp, reqs, current_state, deleted, calls, scope, up, call>>

\* the entry of memory is dropped (a restart of the process)
RTDrop ==
    /\ pc[LOOP] = "rt_drop"
    /\ StateMap' = EmptyDict
    /\ pc' = [pc EXCEPT ![LOOP] = "rt_reload"]
    /\ UNCHANGED <<heap, files, tmps, sv, lp, reqs, current_state, deleted, calls, scope, up, call>>

\* get_state(id) again: the state it returns is heap[StateMap[lp.sid]]
RTReload ==
    /\ pc[LOOP] = "rt_reload"
    /\ heap' = GetStateHeap(lp.sid)
    /\ StateMap' = GetStateMap(lp.sid)
    /\ CallSave(LOOP, lp.sid, GetStateObj(lp.sid), "rt_done")
    /\ UNCHANGED <<files, tmps, lp, reqs, current_state, deleted, calls, scope, up, call>>

RTNext ==
    \/ RTGetState
    \/ SaveOpen(LOOP)
    \/ SaveWrite(LOOP)
    \/ SaveReplace(LOOP)
    \/ RTSave
    \/ RTDrop
    \/ RTReload

SpecRT == RTInit /\ [][RTNext]_vars

\* ------------------------------------------------------------------ /api/send next to /api/send_async
\* what the backend does to a request: the fragments of its lines, then a line with
\* done=true (the last fragment is on it), the end of the response, or a failure
Backends ==
    { [lines |-> ls, ending |-> e] :
        ls \in UNION { [1..n -> Frags] : n \in 0..MaxLines }, e \in {"done", "eof", "raise"} }
    \ { [lines |-> << >>, ending |-> "done"] }

EqScopes == { [StreamScope EXCEPT !.calls = 1] @@ [backend |-> b] : b \in Backends }

SYNC == 1
ASYNC == 2

\* two sessions in the same state: "a" takes the request by /api/send, "b" the same
\* request by /api/send_async, and the backend treats both the same
EqInit ==
    /\ scope \in EqScopes
    /\ \E s \in {apply_defaults(EmptyDict),
                 AppendHistory(AppendHistory(apply_defaults(EmptyDict), "user", <<"hi">>),
                               "assistant", <<"x">>)} :
          heap = <<s, s>>
    /\ StateMap = (<<"a">> :> SYNC) @@ (<<"b">> :> ASYNC)
    /\ files = [n \in FileNames |-> Absent]
    /\ tmps = [n \in FileNames |-> Absent]
    /\ pc = [t \in Threads |-> IF t = LOOP THEN "idle" ELSE "unborn"]
    /\ sv = [t \in Threads |-> NoFrame]
    /\ lp = [op |-> "compare", at |-> "send"]
    /\ reqs = << >>
    /\ current_state = 0
    /\ deleted = {}
    /\ calls = 0
    /\ up = None
    /\ call = NoCall

\* both handlers up to the start of their workers: the payload, the user turn, the job
EqSend(prompt, use_search, location, location_failed) ==
    /\ lp.at = "send"
    /\ Strip(prompt) # << >>
    /\ heap' = [o \in {SYNC, ASYNC} |->
                  CreateJob(AppendHistory(ApplyPayload(apply_defaults(heap[o]), use_search,
                                                       location, location_failed),
                                          "user", Strip(prompt)),
                            o, Strip(prompt))]
    /\ reqs' = <<NewRequest("sync", <<"a">>, SYNC, Strip(prompt)),
                 NewRequest("async", <<"b">>, ASYNC, Strip(prompt))>>
    /\ lp' = [lp EXCEPT !.at = "read"]
    /\ UNCHANGED <<StateMap, files, tmps, pc, sv, current_state, deleted, calls, scope, up, call>>

\* both workers read the next line of the backend
EqLine ==
    /\ lp.at = "read"
    /\ Len(reqs[SYNC].recv) < Len(scope.backend.lines)
    /\ LET chunk == scope.backend.lines[Len(reqs[SYNC].recv) + 1]
       IN  reqs' = [r \in {SYNC, ASYNC} |->
                      [reqs[r] EXCEPT !.acc_parts = AccParts(@, chunk),
                                      !.recv = Append(@, chunk)]]
    /\ UNCHANGED <<heap, StateMap, files, tmps, pc, sv, lp, current_state, deleted, calls,
                   scope, up, call>>

\* the backend ends the response or fails: what each worker leaves in its session
EqEnd ==
    /\ lp.at = "read"
    /\ Len(reqs[SYNC].recv) = Len(scope.backend.lines)
    /\ LET acc == Join(reqs[SYNC].acc_parts)
       IN  \/ /\ scope.backend.ending \in {"done", "eof"}
              /\ heap' = <<SyncFinally(heap[SYNC], SYNC, acc, FALSE),
                           AsyncDone(heap[ASYNC], ASYNC, acc)>>
              /\ UNCHANGED reqs
           \/ /\ scope.backend.ending = "raise"
              /\ \E e \in Errs :
                    /\ heap' = <<SyncFinally(SyncExcept(heap[SYNC], SYNC, e), SYNC, acc, FALSE),
                                 AsyncExcept(heap[ASYNC], ASYNC, e)>>
                    /\ reqs' = [r \in {SYNC, ASYNC} |->
                                  [reqs[r] EXCEPT !.raised = TRUE, !.err = Some(e)]]
    /\ lp' = [lp EXCEPT !.at = "done"]
    /\ UNCHANGED <<StateMap, files, tmps, pc, sv, current_state, deleted, calls, scope, up, call>>

EqNext ==
    \/ \E p \in Prompts, u \in BOOLEAN, l \in Locations, f \in BOOLEAN : EqSend(p, u, l, f)
    \/ EqLine
    \/ EqEnd

SpecEq == EqInit /\ [][EqNext]_vars

\* ------------------------------------------------------------------ scheduling
\* the serving loop runs the handler it is in, the awaited upload and the open streams
LoopStep ==
    \/ SaveOpen(LOOP) \/ SaveWrite(LOOP) \/ SaveReplace(LOOP)
    \/ HistoryReturn \/ UploadRead \/ UploadStore \/ UploadReturn
    \/ SendMutate \/ SendJob \/ SendGather \/ SendAsyncMutate \/ SendAsyncStart
    \/ \E r \in 1..MaxReq :
          StreamStart(r) \/ StreamItem(r) \/ MainStreamStart(r) \/ MainStreamItem(r)

\* the worker thread of request r runs; the backend answers, ends, fails or times out
WorkerStep(r) ==
    \/ SaveOpen(r) \/ SaveWrite(r) \/ SaveReplace(r)
    \/ WorkerStart(r) \/ WorkerEof(r) \/ WorkerExcept(r) \/ WorkerFinally(r) \/ WorkerEnd(r)
    \/ AsyncStart(r) \/ AsyncEof(r) \/ AsyncFinish(r) \/ AsyncFail(r)
    \/ MainEof(r) \/ MainFinally(r)
    \/ \E c \in scope.frags, d \in BOOLEAN :
          WorkerLine(r, c, d) \/ AsyncLine(r, c, d) \/ MainLine(r, c, d)
    \/ \E e \in Errs : WorkerRaise(r, e) \/ AsyncRaise(r, e) \/ MainRaise(r, e)

FairInit == InitIn(FairScopes)

FairSpec == FairInit /\ [][Next]_vars /\ WF_vars(LoopStep) /\ \A r \in 1..MaxReq : WF_vars(WorkerStep(r))

\* ------------------------------------------------------------------ properties
Streams == {r \in 1..Len(reqs) : reqs[r].kind \in {"sync", "main"}}
Jobs == {r \in 1..Len(reqs) : reqs[r].kind \in {"sync", "async"}}

Terminal == {"final", "error"}
HasEvent(r, type) == \E i \in 1..Len(reqs[r].out) : reqs[r].out[i].type = type
HasItem(r, type) == \E i \in 1..Len(reqs[r].queue) : reqs[r].queue[i].type = type
LastEvent(r) == reqs[r].out[Len(reqs[r].out)]

\* C1: the stream of /api/send holds at most one terminal event (final or error) and
\* nothing after it; after a token come only tokens and the terminal event (the job and
\* notice events precede them); a closed stream ends with exactly one terminal event;
\* when the model call raised, the stream holds no final and its terminal event is error
C1_OneTerminalLast ==
    \A r \in Streams :
        /\ \A i \in 1..Len(reqs[r].out) :
              reqs[r].out[i].type \in Terminal => i = Len(reqs[r].out)
        /\ \A i, j \in 1..Len(reqs[r].out) :
              (i < j /\ reqs[r].out[i].type = "token") =>
                  reqs[r].out[j].type \in {"token"} \cup Terminal
        /\ reqs[r].raised => ~HasEvent(r, "final")
        /\ reqs[r].cpc = "closed" =>
              /\ reqs[r].out # << >>
              /\ LastEvent(r).type = IF reqs[r].raised THEN "error" ELSE "final"

\* the model call raised after a token was streamed, and the stream is closed
C1_Witness ==
    \E r \in Streams :
        /\ reqs[r].raised /\ reqs[r].cpc = "closed" /\ pc[r] = "done"
        /\ HasEvent(r, "token") /\ LastEvent(r).type = "error"

\* C2: the worker of /api/send enqueues the end sentinel on every path (once it is done,
\* the sentinel is on the queue or was turned into the final event), and every accepted
\* request's stream eventually closes with a terminal event
C2_StreamTerminates ==
    /\ [](\A r \in Streams : pc[r] = "done" => HasItem(r, "end") \/ HasEvent(r, "final"))
    /\ \A r \in 1..MaxReq :
          (r \in Streams) ~>
              (r \in Streams /\ reqs[r].cpc = "closed" /\ reqs[r].out # << >>
                  /\ LastEvent(r).type \in Terminal)

\* the model call raised before any line was read; the stream closed on the error event
\* and the worker still put the end sentinel on the queue
C2_Witness ==
    \E r \in Streams :
        /\ reqs[r].raised /\ reqs[r].recv = << >> /\ pc[r] = "done"
        /\ reqs[r].cpc = "closed" /\ HasItem(r, "end")

TokenTexts(out) ==
    LET toks == SelectSeq(out, LAMBDA e : e.type = "token")
    IN  [i \in 1..Len(toks) |-> toks[i].text]
NonEmpty(fragments) == SelectSeq(fragments, LAMBDA c : c # << >>)
IsPrefix(a, b) == Len(a) <= Len(b) /\ \A i \in 1..Len(a) : a[i] = b[i]

\* C3: the token events are the non-empty fragments of the lines read, in their order,
\* and the raw field of the final event is the concatenation of the token texts
C3_TokensAreFragments ==
    \A r \in Streams :
        /\ IsPrefix(TokenTexts(reqs[r].out), NonEmpty(reqs[r].recv))
        /\ HasEvent(r, "final") =>
              /\ TokenTexts(reqs[r].out) = NonEmpty(reqs[r].recv)
              /\ LastEvent(r).raw = Join(TokenTexts(reqs[r].out))

\* two lines were read, one of them with an empty fragment, and the final event is out
C3_Witness ==
    \E r \in Streams :
        /\ HasEvent(r, "final") /\ Len(reqs[r].recv) = 2
        /\ \E i \in 1..2 : reqs[r].recv[i] = << >>
        /\ Len(TokenTexts(reqs[r].out)) = 1

HistoryOf(obj) == heap[obj]["history"]
HasTurn(obj, role, text) ==
    \E i \in 1..Len(HistoryOf(obj)) :
        HistoryOf(obj)[i].role = role /\ HistoryOf(obj)[i].text = text

\* C4: whenever a final event is out, an assistant turn whose text is the event's raw
\* field is in the session history, and (in routes.py) the worker has saved the session
C4_FinalAfterAppend ==
    \A r \in Streams :
        HasEvent(r, "final") =>
            /\ HasTurn(reqs[r].obj, "assistant", LastEvent(r).raw)
            /\ reqs[r].kind = "sync" => reqs[r].result.saved

\* C5: a step never removes, reorders or changes a turn of a session that is in memory
\* before and after it: the history after the step extends the history before it
C5_HistoryAppendOnly ==
    [][\A id \in DOMAIN StateMap :
          id \in DOMAIN StateMap' =>
              IsPrefix(HistoryOf(StateMap[id]), heap'[StateMap'[id]]["history"])]_vars

\* a session holds the user turn and the assistant turn of a request, and an upload
\* was stored in it meanwhile
C5_Witness ==
    \E id \in DOMAIN StateMap :
        /\ Len(HistoryOf(StateMap[id])) = 2
        /\ HistoryOf(StateMap[id])[2].role = "assistant"
        /\ heap[StateMap[id]]["file_context"] # << >>

\* C6: a session file is absent or holds the complete document of one save_session call
C6_FileComplete ==
    \A n \in FileNames : files[n] = Absent \/ files[n][1] = "doc"

\* C8: right after delete_session(id) returned, get_state(id) would hand out a session
\* whose history is empty
C8_DeleteForgets ==
    \A id \in deleted : GetStateHeap(id)[GetStateObj(id)]["history"] = << >>

JobOf(r) == heap[reqs[r].obj]["jobs"][r]

\* C9: every job of /api/send and /api/send_async is created running and eventually
\* has status done or error
C9_JobSettles ==
    /\ [][\A r \in 1..MaxReq :
            (r \notin Jobs /\ (r \in Jobs)') => (JobOf(r).status)' = "running"]_vars
    /\ \A r \in 1..MaxReq :
          (r \in Jobs) ~> (r \in Jobs /\ JobOf(r).status \in {"done", "error"})

\* the pipeline of an asynchronous job raised, and the job is in status error
C9_Witness ==
    \E r \in Jobs :
        /\ reqs[r].kind = "async" /\ reqs[r].raised /\ pc[r] = "done"
        /\ JobOf(r).status = "error"

\* the state dicts agree on every key; history entries agree on role and text
\* (a tuple that was saved comes back as a list)
SameTurns(h, g) ==
    /\ Len(h) = Len(g)
    /\ \A i \in 1..Len(h) : h[i].role = g[i].role /\ h[i].text = g[i].text
Equivalent(s, t) ==
    /\ DOMAIN s = DOMAIN t
    /\ SameTurns(s["history"], t["history"])
    /\ \A k \in DOMAIN s \ {"history"} : s[k] = t[k]

\* C7: at the end of get_state, save_session, drop of the memory entry, get_state, the
\* state handed out last is equivalent to the one saved: same history in the same
\* order, same flags, file_context, user_location, jobs
C7_RoundTrip ==
    pc[LOOP] = "rt_done" => Equivalent(heap[lp.obj], heap[StateMap[lp.sid]])

\* the round trip ended for a session with a location, a reasoning block in its
\* assistant turn and a finished job, and the state handed out last is a reloaded one
C7_Witness ==
    /\ pc[LOOP] = "rt_done"
    /\ lp.op = "round_trip"
    /\ StateMap[lp.sid] # lp.obj
    /\ heap[lp.obj]["user_location"] = PLoc
    /\ Len(heap[lp.obj]["history"]) = 2
    /\ heap[lp.obj]["history"][2].kind = "tuple"
    /\ heap[StateMap[lp.sid]]["history"][2].kind = "list"
    /\ heap[lp.obj]["jobs"][1].status = "done"

JobFields(j) == <<j.status, j.raw, j.answer, j.thinking, j.error>>

\* C10: for the same session state, request and backend behaviour, /api/send_async
\* leaves the history and the job record (status, raw, answer, thinking, error) that
\* /api/send leaves
C10_SamePipeline ==
    (lp.op = "compare" /\ lp.at = "done") =>
        /\ heap[SYNC]["history"] = heap[ASYNC]["history"]
        /\ JobFields(heap[SYNC]["jobs"][SYNC]) = JobFields(heap[ASYNC]["jobs"][ASYNC])

\* ------------------------------------------------------------------ the search chain
\* the clock counts ticks; int(remaining) drops the ticks of the last, unfinished second
TicksPerSecond == 2
\* gather_context: the 30 of min(30, int(remaining))
PROVIDER_TIMEOUT_CAP == 30

Min(a, b) == IF a < b THEN a ELSE b

\* what a provider's HTTP request can do: results, a response without results, an exception
Outcomes == {"results", "empty", "raise"}
Hits(provider) == <<[title |-> provider, url |-> <<"u">>, snippet |-> <<"s">>]>>
\* "; ".join(errors)
RECURSIVE JoinErrors(_)
JoinErrors(errors) ==
    IF Len(errors) = 1 THEN errors[1]
    ELSE errors[1] \o <<"; ">> \o JoinErrors(Tail(errors))

Returned(results, error, requests) ==
    [results |-> results, error |-> error, requests |-> requests]

\* WebAccess.bravery_search: (results, error), and the HTTP requests made on the way
bravery_search(query, key, outcome, timeout) ==
    IF query = << >> THEN Returned(<< >>, Some(<<"No query provided">>), << >>)
    ELSE IF ~key THEN Returned(<< >>, Some(<<"BRAVE_API_KEY is not set">>), << >>)
    ELSE LET sent == <<[to |-> "brave", timeout |-> timeout]>>
         IN  CASE outcome = "results" -> Returned(Hits("brave"), None, sent)
               [] outcome = "empty" ->
                    Returned(<< >>, Some(<<"Brave Search returned no results">>), sent)
               [] outcome = "raise" -> Returned(<< >>, Some(<<"boom">>), sent)

\* Search.perform_search: Google CSE when it is configured, then DuckDuckGo
perform_search(query, use_google, google, ddg, timeout) ==
    IF query = << >> THEN Returned(<< >>, None, << >>)
    ELSE
    LET g_sent == IF use_google THEN <<[to |-> "google", timeout |-> timeout]>> ELSE << >>
        d_sent == g_sent \o <<[to |-> "ddg", timeout |-> timeout]>>
        errors == IF ~use_google \/ google = "results" THEN << >>
                  ELSE IF google = "empty" THEN <<<<"Google search returned no results.">>>>
                  ELSE <<<<"Google search failed: ", "boom">>>>
    IN  IF use_google /\ google = "results" THEN Returned(Hits("google"), None, g_sent)
        ELSE CASE ddg = "results" -> Returned(Hits("ddg"), None, d_sent)
               [] ddg = "empty" ->
                    Returned(<< >>, IF errors # << >> THEN Some(JoinErrors(errors)) ELSE None,
                             d_sent)
               [] ddg = "raise" ->
                    Returned(<< >>, Some(JoinErrors(Append(errors, <<"boom">>))), d_sent)

\* gather_context: the timeout handed to a provider
ProviderTimeout(remaining) == Min(PROVIDER_TIMEOUT_CAP, remaining \div TicksPerSecond)

\* gather_context: the lines "SEARCH RESULT i: snippet (url)", joined
SearchContext(results) ==
    [i \in 1..Len(results) |-> <<"SEARCH RESULT ", i, ": ">> \o results[i].snippet
                                   \o <<" (">> \o results[i].url \o <<")">>]

\* the inputs: the prompts, the deadlines (in ticks, the clock starts at 0), the time a
\* provider call takes, the keys of the environment
GatherPrompts == {<< >>, <<"news">>, <<"hi">>}
Deadlines == {0 - 1, 0, 1, TicksPerSecond, TicksPerSecond + 1,
              PROVIDER_TIMEOUT_CAP * TicksPerSecond + 1,
              (PROVIDER_TIMEOUT_CAP + 2) * TicksPerSecond}
Elapsed == {0, 1, TicksPerSecond}
Envs == [brave_key : BOOLEAN, use_google : BOOLEAN]

GatherFrame(use_search, prompt, deadline, env) ==
    [fn |-> "gather_context", at |-> "decide", use_search |-> use_search,
     prompt |-> prompt, deadline |-> deadline, env |-> env, now |-> 0, remaining |-> 0,
     should_search |-> FALSE, log |-> << >>, requests |-> << >>,
     results |-> << >>, error |-> None, timed_out |-> FALSE, context |-> << >>]

SearchFrame(fn, query, env) ==
    [fn |-> fn, at |-> "call", use_search |-> FALSE,
     prompt |-> query, deadline |-> 0, env |-> env, now |-> 0, remaining |-> 0,
     should_search |-> FALSE, log |-> << >>, requests |-> << >>,
     results |-> << >>, error |-> None, timed_out |-> FALSE, context |-> << >>]


GatherInit ==
    /\ NoRequests({StoreScope})
    /\ \E env \in Envs, prompt \in GatherPrompts :
          \/ \E use_search \in BOOLEAN, deadline \in Deadlines :
                call = GatherFrame(use_search, prompt, deadline, env)
          \/ \E fn \in {"bravery_search", "perform_search"} :
                call = SearchFrame(fn, prompt, env)

\* gather_context: should_search = use_search and _needs_search(prompt)
SearchesWhenNeeded(use_search, prompt) == needs_search(prompt)
ShouldSearch(use_search, prompt) == use_search /\ needs_search(prompt)

\* gather_context: if remaining <= 0
DeadlineBehind(remaining) == remaining < 0
DeadlinePassed(remaining) == remaining <= 0

\* gather_context up to the deadline check: the search decision from the attached
\* state's use_search and _needs_search(prompt), then the time that remains
GatherDecide ==
    /\ call.fn = "gather_context"
    /\ call.at = "decide"
    /\ LET should_search == ShouldSearch(call.use_search, call.prompt)
           remaining == call.deadline - call.now
       IN  call' =
             IF ~should_search THEN [call EXCEPT !.at = "format"]
             ELSE IF DeadlinePassed(remaining)
             THEN [call EXCEPT !.should_search = TRUE, !.remaining = remaining,
                               !.timed_out = TRUE,
                               !.error = Some(<<"Search time budget exceeded before starting.">>),
                               !.at = "format"]
             ELSE [call EXCEPT !.should_search = TRUE, !.remaining = remaining,
                               !.at = "primary"]
    /\ UNCHANGED <<heap, StateMap, files, tmps, pc, sv, lp, reqs, current_state, deleted,
                   calls, scope, up>>

\* a provider is called: what the call was given, and the time that was left then
Logged(fn, timeout) ==
    [fn |-> fn, timeout |-> timeout, left |-> call.deadline - call.now]

\* ... bravery_search(prompt, timeout=min(30, int(remaining))), which takes some time ...
GatherPrimary ==
    /\ call.fn = "gather_context"
    /\ call.at = "primary"
    /\ \E outcome \in Outcomes, e \in Elapsed :
          LET timeout == ProviderTimeout(call.remaining)
              ret == bravery_search(call.prompt, call.env.brave_key, outcome, timeout)
          IN  call' = [call EXCEPT
                         !.log = Append(@, Logged("bravery_search", timeout)),
                         !.requests = @ \o ret.requests,
                         !.now = @ + (IF ret.requests = << >> THEN 0 ELSE e),
                         !.results = ret.results,
                         !.error = ret.error,
                         !.at = IF ret.error # None /\ ret.results = << >>
                                THEN "fallback" ELSE "format"]
    /\ UNCHANGED <<heap, StateMap, files, tmps, pc, sv, lp, reqs, current_state, deleted,
                   calls, scope, up>>

\* gather_context: what the fallback's return makes of search_results and search_error
AfterFallback(results, error, ret) ==
    IF ret.results # << >> THEN <<ret.results, None>>
    ELSE IF ret.error # None THEN <<results, Some(error[1] \o <<"; ">> \o ret.error[1])>>
    ELSE <<results, error>>

\* ... the fallback perform_search(prompt, timeout=min(30, int(remaining))), with the
\* remaining time that was computed before the primary call ...
GatherFallback ==
    /\ call.fn = "gather_context"
    /\ call.at = "fallback"
    /\ \E google \in Outcomes, ddg \in Outcomes, e \in Elapsed :
          LET timeout == ProviderTimeout(call.remaining)
              ret == perform_search(call.prompt, call.env.use_google, google, ddg, timeout)
              after == AfterFallback(call.results, call.error, ret)
          IN  call' = [call EXCEPT
                         !.log = Append(@, Logged("perform_search", timeout)),
                         !.requests = @ \o ret.requests,
                         !.now = @ + e,
                         !.results = after[1],
                         !.error = after[2],
                         !.at = "format"]
    /\ UNCHANGED <<heap, StateMap, files, tmps, pc, sv, lp, reqs, current_state, deleted,
                   calls, scope, up>>

\* ... and the search context built from the results, and the return
GatherFormat ==
    /\ call.fn = "gather_context"
    /\ call.at = "format"
    /\ call' = [call EXCEPT !.context = SearchContext(call.results), !.at = "done"]
    /\ UNCHANGED <<heap, StateMap, files, tmps, pc, sv, lp, reqs, current_state, deleted,
                   calls, scope, up>>

\* bravery_search or perform_search called on its own, with the default timeout
SearchReturn(ret) ==
    [call EXCEPT !.results = ret.results, !.error = ret.error,
                 !.requests = ret.requests, !.at = "done"]

BraveryCall ==
    /\ call.fn = "bravery_search"
    /\ call.at = "call"
    /\ \E outcome \in Outcomes :
          call' = SearchReturn(bravery_search(call.prompt, call.env.brave_key, outcome, 10))
    /\ UNCHANGED <<heap, StateMap, files, tmps, pc, sv, lp, reqs, current_state, deleted,
                   calls, scope, up>>

PerformCall ==
    /\ call.fn = "perform_search"
    /\ call.at = "call"
    /\ \E google \in Outcomes, ddg \in Outcomes :
          call' = SearchReturn(perform_search(call.prompt, call.env.use_google, google, ddg, 30))
    /\ UNCHANGED <<heap, StateMap, files, tmps, pc, sv, lp, reqs, current_state, deleted,
                   calls, scope, up>>

GatherNext ==
    \/ GatherDecide
    \/ GatherPrimary
    \/ GatherFallback
    \/ GatherFormat
    \/ BraveryCall
    \/ PerformCall

SpecGather == GatherInit /\ [][GatherNext]_vars

\* ------------------------------------------------------------------ get_ollama_endpoint
LOCAL_MODEL == "deepseek-r1:14b"
CLOUD_MODEL == "deepseek-v3.2:cloud"
DEFAULT_LOCAL_BASE == <<"http://", "localhost", ":11434">>
DEFAULT_CLOUD_BASE == <<"https://", "ollama.com">>
LOCAL_STARTUP_GRACE_S == 8
MISSING_KEY == "OLLAMA_API_KEY is required for the configured Ollama cloud endpoint."
NO_ENDPOINT == "No reachable Ollama endpoint (local or cloud)."

Schemes == {"http://", "https://"}
Contains(t, sym) == Find(t, sym) # 0 - 1

\* str.rstrip("/")
RECURSIVE RStripSlash(_)
RStripSlash(t) ==
    IF t # << >> /\ t[Len(t)] = "/" THEN RStripSlash(SubSeq(t, 1, Len(t) - 1)) ELSE t

\* Model._normalize_base
normalize_base(host) ==
    LET h == Strip(host)
    IN  RStripSlash(IF h # << >> /\ h[1] \in Schemes THEN h ELSE <<"http://">> \o h)

\* Model._generate_url
generate_url(base) ==
    LET b == normalize_base(base)
    IN  IF b[Len(b)] = "/api/generate" THEN b
        ELSE IF b[Len(b)] = "/api" THEN b \o <<"/generate">>
        ELSE b \o <<"/api/generate">>

\* Model._is_local_base: the text up to the first "/" once the schemes are removed
is_local_base(base) ==
    LET bare == SelectSeq(base, LAMBDA s : s \notin Schemes)
        cut == Find(bare, "/")
        host == IF cut = 0 - 1 THEN bare ELSE SubSeq(bare, 1, cut)
    IN  host # << >> /\ host[1] \in {"localhost", "127.0.0.1"}

\* str.lower, on the model tags
Lower(tag) == CASE tag = "Cloud" -> "cloud" [] tag = "Local" -> "local" [] OTHER -> tag

Bearer(key) == "Authorization" :> <<"Bearer ", key>>
Return(url, headers, model) ==
    [kind |-> "return", url |-> url, headers |-> headers, model |-> model, msg |-> ""]
Raise(msg) ==
    [kind |-> "raise", url |-> << >>, headers |-> EmptyDict, model |-> "", msg |-> msg]

\* Model._auth_headers, and the return of get_ollama_endpoint that takes its headers
\* from it: the key is "" when none is configured
NeedsKey(base, require_key) ==
    \/ require_key
    \/ Contains(base, "ollama.com")
    \/ (Len(base) >= 2 /\ base[1] = "https://" /\ base[2] = "api.ollama.")

WithAuth(base, require_key, key, model) ==
    IF NeedsKey(base, require_key)
    THEN IF key = "" THEN Raise(MISSING_KEY)
         ELSE Return(generate_url(base), Bearer(key), model)
    ELSE Return(generate_url(base), EmptyDict, model)

\* Model._debug_force_model: DEBUG_FORCE_MODEL, else DebugSettings.FORCE_MODEL when
\* the debug settings are enabled in the environment and in DebugSettings.py
debug_force_model(cfg) ==
    IF cfg.env_force # None THEN cfg.env_force
    ELSE IF ~cfg.env_flag THEN None
    ELSE IF cfg.enable_debug_settings THEN cfg.force_model
    ELSE None

\* get_ollama_endpoint, the branch of an explicit OLLAMA_HOST
ExplicitHost(explicit_host, forced_model, key) ==
    LET base == normalize_base(explicit_host)
        is_cloud == Contains(base, "ollama.com") /\ ~is_local_base(base)
        model == IF forced_model # None THEN forced_model[1]
                 ELSE IF is_cloud THEN CLOUD_MODEL ELSE LOCAL_MODEL
    IN  WithAuth(base, is_cloud, key, model)

\* the environment: OLLAMA_HOST, DEBUG_FORCE_MODEL, the debug flag, DebugSettings.py,
\* OLLAMA_API_KEY
Hosts == {<<"localhost", ":11434">>,
          <<"https://", "ollama.com", "/">>,
          <<"http://", "127.0.0.1", ":11434", "/", "ollama.com">>,
          <<"gpu-box", ":11434", "/api">>}
Configs ==
    [host : {None} \cup {Some(h) : h \in Hosts},
     env_force : {None, Some("cloud"), Some("llama3")},
     env_flag : BOOLEAN,
     enable_debug_settings : BOOLEAN,
     force_model : {None, Some("local"), Some("Cloud"), Some(LOCAL_MODEL), Some(CLOUD_MODEL)},
     key : {"", "k"}]

EndpointFrame(cfg) ==
    [fn |-> "get_ollama_endpoint", at |-> "start", cfg |-> cfg, forced |-> None,
     waited |-> 0, probes |-> << >>, ret |-> Raise("")]

EndpointInit ==
    /\ NoRequests({StoreScope})
    /\ \E cfg \in Configs : call = EndpointFrame(cfg)

Probed(base, is_up) == [base |-> base, up |-> is_up]
Done(ret) == [call EXCEPT !.ret = ret, !.at = "done"]

\* get_ollama_endpoint up to the first probe: the forced model, the explicit host, the
\* aliases of the forced model
EndpointResolve ==
    /\ call.fn = "get_ollama_endpoint"
    /\ call.at = "start"
    /\ LET forced_model == debug_force_model(call.cfg)
           key == call.cfg.key
           c == [call EXCEPT !.forced = forced_model]
       IN  call' =
             IF call.cfg.host # None /\ call.cfg.host[1] # << >>
             THEN [c EXCEPT !.ret = ExplicitHost(call.cfg.host[1], forced_model, key),
                            !.at = "done"]
             ELSE IF forced_model # None
             THEN IF Lower(forced_model[1]) = "cloud" \/ forced_model[1] = CLOUD_MODEL
                  THEN [c EXCEPT !.ret = WithAuth(normalize_base(DEFAULT_CLOUD_BASE), TRUE,
                                                  key, CLOUD_MODEL),
                                 !.at = "done"]
                  ELSE IF Lower(forced_model[1]) = "local" \/ forced_model[1] = LOCAL_MODEL
                  THEN [c EXCEPT !.ret = Return(generate_url(DEFAULT_LOCAL_BASE), EmptyDict,
                                                LOCAL_MODEL),
                                 !.at = "done"]
                  ELSE [c EXCEPT !.at = "custom"]
             ELSE [c EXCEPT !.at = "probe"]
    /\ UNCHANGED <<heap, StateMap, files, tmps, pc, sv, lp, reqs, current_state, deleted,
                   calls, scope, up>>

\* ... a custom forced tag: local if it is up, else the cloud with a key ...
EndpointCustom ==
    /\ call.fn = "get_ollama_endpoint"
    /\ call.at = "custom"
    /\ \E is_up \in BOOLEAN :
          LET base_local == normalize_base(DEFAULT_LOCAL_BASE)
              base_cloud == normalize_base(DEFAULT_CLOUD_BASE)
              c == [call EXCEPT !.probes = Append(@, Probed("local", is_up))]
          IN  call' = [c EXCEPT
                         !.ret = IF is_up
                                 THEN Return(generate_url(base_local), EmptyDict, call.forced[1])
                                 ELSE WithAuth(base_cloud, TRUE, call.cfg.key, call.forced[1]),
                         !.at = "done"]
    /\ UNCHANGED <<heap, StateMap, files, tmps, pc, sv, lp, reqs, current_state, deleted,
                   calls, scope, up>>

\* ... the first probe of the local daemon ...
EndpointProbe ==
    /\ call.fn = "get_ollama_endpoint"
    /\ call.at = "probe"
    /\ \E is_up \in BOOLEAN :
          LET c == [call EXCEPT !.probes = Append(@, Probed("local", is_up))]
          IN  call' =
                IF is_up
                THEN [c EXCEPT !.ret = Return(generate_url(DEFAULT_LOCAL_BASE), EmptyDict,
                                              LOCAL_MODEL),
                               !.at = "done"]
                ELSE IF LOCAL_STARTUP_GRACE_S > 0 THEN [c EXCEPT !.at = "grace"]
                ELSE [c EXCEPT !.at = "cloud"]
    /\ UNCHANGED <<heap, StateMap, files, tmps, pc, sv, lp, reqs, current_state, deleted,
                   calls, scope, up>>

\* ... a turn of the grace loop: sleep(1) and a probe that takes up to a second ...
EndpointGrace ==
    /\ call.fn = "get_ollama_endpoint"
    /\ call.at = "grace"
    /\ call.waited < LOCAL_STARTUP_GRACE_S
    /\ \E is_up \in BOOLEAN, took \in {0, 1} :
          LET c == [call EXCEPT !.probes = Append(@, Probed("local", is_up)),
                                !.waited = @ + 1 + took]
          IN  call' =
                IF is_up
                THEN [c EXCEPT !.ret = Return(generate_url(DEFAULT_LOCAL_BASE), EmptyDict,
                                              LOCAL_MODEL),
                               !.at = "done"]
                ELSE c
    /\ UNCHANGED <<heap, StateMap, files, tmps, pc, sv, lp, reqs, current_state, deleted,
                   calls, scope, up>>

\* ... the grace period is over ...
EndpointGraceOver ==
    /\ call.fn = "get_ollama_endpoint"
    /\ call.at = "grace"
    /\ call.waited >= LOCAL_STARTUP_GRACE_S
    /\ call' = [call EXCEPT !.at = "cloud"]
    /\ UNCHANGED <<heap, StateMap, files, tmps, pc, sv, lp, reqs, current_state, deleted,
                   calls, scope, up>>

\* get_ollama_endpoint: what follows the probe of the cloud base
CloudWithoutProbe(is_up, key) ==
    WithAuth(normalize_base(DEFAULT_CLOUD_BASE), TRUE, key, CLOUD_MODEL)
CloudFallback(is_up, key) ==
    IF is_up THEN WithAuth(normalize_base(DEFAULT_CLOUD_BASE), TRUE, key, CLOUD_MODEL)
    ELSE Raise(NO_ENDPOINT)

\* ... and the cloud: probed, then the key, or no endpoint at all
EndpointCloud ==
    /\ call.fn = "get_ollama_endpoint"
    /\ call.at = "cloud"
    /\ \E is_up \in BOOLEAN :
          call' = [call EXCEPT !.probes = Append(@, Probed("cloud", is_up)),
                               !.ret = CloudFallback(is_up, call.cfg.key),
                               !.at = "done"]
    /\ UNCHANGED <<heap, StateMap, files, tmps, pc, sv, lp, reqs, current_state, deleted,
                   calls, scope, up>>

EndpointNext ==
    \/ EndpointResolve
    \/ EndpointCustom
    \/ EndpointProbe
    \/ EndpointGrace
    \/ EndpointGraceOver
    \/ EndpointCloud

SpecEndpoint == EndpointInit /\ [][EndpointNext]_vars

\* ------------------------------------------------------------------ build_chat_context
MaxHistory == 3
MaxLimit == 4
MaxText == 4

\* str.upper, on the roles
Upper(role) == CASE role = "user" -> "USER" [] role = "assistant" -> "ASSISTANT"
                 [] OTHER -> role

\* seq[start:] of Python: a negative start counts from the end, and -0 is 0
SliceFrom(seq, start) ==
    LET n == Len(seq)
        from == IF start < 0 THEN (IF n + start < 0 THEN 0 ELSE n + start)
                ELSE IF start > n THEN n ELSE start
    IN  SubSeq(seq, from + 1, n)

\* "\n".join(lines)
RECURSIVE JoinLines(_)
JoinLines(lines) ==
    IF lines = << >> THEN << >>
    ELSE IF Len(lines) = 1 THEN lines[1]
    ELSE lines[1] \o <<"\n">> \o JoinLines(Tail(lines))

\* f"{r.upper()}: {t}"
RenderTurn(turn) == <<Upper(turn.role), ": ">> \o turn.text

\* Prompt.build_chat_context
build_chat_context(history, limit) ==
    LET recent == SliceFrom(history, 0 - limit)
    IN  JoinLines([i \in 1..Len(recent) |-> RenderTurn(recent[i])])

\* the inputs: histories of up to MaxHistory turns, limits, texts of up to MaxText symbols
TextTurns == {Turn("user", <<"a">>), Turn("assistant", <<"b">>)}
Histories == UNION {[1..n -> TextTurns] : n \in 0..MaxHistory}
Texts == UNION {[1..n -> {OPEN_TAG, CLOSE_TAG, "r", " "}] : n \in 0..MaxText}

ChatContextFrame(history, limit) ==
    [fn |-> "build_chat_context", at |-> "call", history |-> history, limit |-> limit,
     text |-> << >>, rendered |-> << >>, split |-> split_thinking(<< >>)]
SplitFrame(text) ==
    [fn |-> "split_thinking", at |-> "call", history |-> << >>, limit |-> 0,
     text |-> text, rendered |-> << >>, split |-> split_thinking(<< >>)]

TextInit ==
    /\ NoRequests({StoreScope})
    /\ \/ \E history \in Histories, limit \in 0..MaxLimit :
             call = ChatContextFrame(history, limit)
       \/ \E text \in Texts : call = SplitFrame(text)

ChatContextCall ==
    /\ call.fn = "build_chat_context"
    /\ call.at = "call"
    /\ call' = [call EXCEPT !.rendered = build_chat_context(call.history, call.limit),
                            !.at = "done"]
    /\ UNCHANGED <<heap, StateMap, files, tmps, pc, sv, lp, reqs, current_state, deleted,
                   calls, scope, up>>

SplitCall ==
    /\ call.fn = "split_thinking"
    /\ call.at = "call"
    /\ call' = [call EXCEPT !.split = split_thinking(call.text), !.at = "done"]
    /\ UNCHANGED <<heap, StateMap, files, tmps, pc, sv, lp, reqs, current_state, deleted,
                   calls, scope, up>>

TextNext ==
    \/ ChatContextCall
    \/ SplitCall

SpecText == TextInit /\ [][TextNext]_vars

\* C11: with use_search off in the state it reads, gather_context calls no search provider, neither the
\* primary nor the fallback, whatever the prompt and the deadline, and returns an
\* empty search context, timed_out False and no error
C11_NoSearchWhenOff ==
    (call.fn = "gather_context" /\ ~call.use_search) =>
        /\ call.log = << >>
        /\ call.requests = << >>
        /\ call.at = "done" =>
              /\ call.context = << >>
              /\ ~call.timed_out
              /\ call.error = None

\* gather_context returned with use_search off, for a recency prompt and a deadline
\* that had passed
C11_Witness ==
    /\ call.fn = "gather_context"
    /\ call.at = "done"
    /\ ~call.use_search
    /\ needs_search(call.prompt)
    /\ call.deadline < 0

\* C12: with use_search on, a prompt that matches the recency heuristic and a deadline
\* that has passed when gather_context is entered (remaining time <= 0), no search
\* provider is called and the return has timed_out True and an empty search context
C12_PastDeadlineSkips ==
    (/\ call.fn = "gather_context"
     /\ call.use_search
     /\ needs_search(call.prompt)
     /\ call.deadline <= 0) =>
        /\ call.log = << >>
        /\ call.requests = << >>
        /\ call.at = "done" =>
              /\ call.timed_out
              /\ call.context = << >>

\* gather_context returned for a recency prompt with use_search on, entered at the very
\* instant of the deadline
C12_Witness ==
    /\ call.fn = "gather_context"
    /\ call.at = "done"
    /\ call.use_search
    /\ needs_search(call.prompt)
    /\ call.deadline = 0
    /\ call.timed_out

\* C13: every provider call of gather_context, the primary and the fallback, is given
\* the timeout min(30 s, time remaining to the deadline): a timeout that is strictly
\* positive and not larger than the time left to the deadline when the call is made
C13_TimeoutWithinDeadline ==
    call.fn = "gather_context" =>
        \A i \in 1..Len(call.log) :
            /\ call.log[i].timeout > 0
            /\ call.log[i].timeout * TicksPerSecond <= call.log[i].left
            /\ call.log[i].timeout =
                   Min(PROVIDER_TIMEOUT_CAP, call.log[i].left \div TicksPerSecond)

\* C14: a search call (bravery_search, perform_search, the chain of gather_context when
\* a search is due) that returns an empty result list returns an error string with it,
\* for every provider outcome and for the empty query
C14_EmptyResultsCarryError ==
    (/\ call.fn \in {"bravery_search", "perform_search", "gather_context"}
     /\ call.at = "done"
     /\ call.fn = "gather_context" => call.should_search
     /\ call.results = << >>) =>
        call.error # None

\* get_ollama_endpoint ended with no explicit host and no forced model, the local daemon
\* down at the first probe and at every probe of the grace period
LocalNeverUp ==
    /\ call.fn = "get_ollama_endpoint"
    /\ call.at = "done"
    /\ call.cfg.host = None
    /\ call.forced = None
    /\ \A i \in 1..Len(call.probes) : call.probes[i].base = "local" => ~call.probes[i].up

CloudEndpoint(key) ==
    Return(<<"https://", "ollama.com", "/api/generate">>, Bearer(key), CLOUD_MODEL)

C16_CredentialByEndpoint ==
    (call.fn = "get_ollama_endpoint" /\ call.at = "done") =>
        /\ (call.ret.kind = "return" /\ is_local_base(call.ret.url)) =>
              call.ret.headers = EmptyDict
        /\ (/\ call.ret.kind = "return"
            /\ Contains(call.ret.url, "ollama.com")
            /\ ~is_local_base(call.ret.url)) =>
              /\ call.cfg.key # ""
              /\ call.ret.headers = Bearer(call.cfg.key)
        /\ (/\ call.cfg.host # None
            /\ is_local_base(normalize_base(call.cfg.host[1]))) =>
              call.ret.kind = "return"

\* C17: when the forced model is the alias "local" (or "cloud"), whatever the rest of
\* the environment, a return of get_ollama_endpoint carries the canonical local (or
\* cloud) model tag and the local (or cloud) generate URL, never the bare alias
C17_AliasNormalized ==
    (/\ call.fn = "get_ollama_endpoint"
     /\ call.at = "done"
     /\ call.forced \in {Some("local"), Some("cloud")}
     /\ call.ret.kind = "return") =>
        /\ call.ret.model \notin {"local", "cloud"}
        /\ call.forced = Some("local") =>
              /\ call.ret.model = LOCAL_MODEL
              /\ call.ret.url = <<"http://", "localhost", ":11434", "/api/generate">>
        /\ call.forced = Some("cloud") =>
              /\ call.ret.model = CLOUD_MODEL
              /\ call.ret.url = <<"https://", "ollama.com", "/api/generate">>

\* C18: for every history and every limit >= 0, build_chat_context(history, limit) is
\* the last min(limit, len(history)) turns in their order, each as ROLE: text with the
\* role in upper case, joined by newlines: never more than limit turns
C18_LastLimitTurns ==
    (call.fn = "build_chat_context" /\ call.at = "done") =>
        LET n == Min(call.limit, Len(call.history))
            first == Len(call.history) - n
        IN  call.rendered =
              JoinLines([i \in 1..n |->
                           <<Upper(call.history[first + i].role), ": ">>
                               \o call.history[first + i].text])

\* the first opening delimiter of a text and the first closing delimiter after it
FirstOpen(text) == Find(text, OPEN_TAG) + 1
FirstCloseAfter(text) ==
    LET later == {i \in (FirstOpen(text) + 1)..Len(text) : text[i] = CLOSE_TAG}
    IN  IF FirstOpen(text) = 0 \/ later = {} THEN 0
        ELSE CHOOSE i \in later : \A j \in later : i <= j

\* C19: for every text, split_thinking takes the first opening delimiter and the first
\* closing delimiter after it: when both exist has_thinking is True, thinking is the
\* text between them and answer is the text before the one followed by the text after
\* the other; otherwise the result is (None, the text, False); all up to the white
\* space at the ends, which split_thinking strips
C19_FirstPairSplits ==
    (call.fn = "split_thinking" /\ call.at = "done") =>
        LET text == call.text
            o == FirstOpen(text)
            c == FirstCloseAfter(text)
        IN  IF c # 0
            THEN /\ call.split.has_thinking
                 /\ call.split.thinking = Some(Strip(SubSeq(text, o + 1, c - 1)))
                 /\ call.split.answer =
                        Strip(SubSeq(text, 1, o - 1) \o SubSeq(text, c + 1, Len(text)))
            ELSE /\ ~call.split.has_thinking
                 /\ call.split.thinking = None
                 /\ call.split.answer = Strip(text)

\* C20: under every interleaving of requests on different sessions, the search decision
\* gather_context takes for a request follows the use_search flag of the request's own
\* session: no search is requested or performed for a request whose session has the
\* flag off
C20_OwnSessionDecides ==
    \A r \in 1..Len(reqs) :
        (reqs[r].requested \/ reqs[r].performed) => heap[reqs[r].obj]["use_search"]

\* C21: once delete_session(id) has returned, the file of id stays absent until a later
\* get_state, create_session, upload or send on id brings the session back: while no
\* session of memory is stored under a file name, only a handler of the serving loop
\* creates that file, never the worker thread of an earlier request
C21_DeletedStaysDeleted ==
    [][\A n \in FileNames :
          (/\ \A id \in DOMAIN StateMap : session_path(id) # n
           /\ files[n] = Absent
           /\ files'[n] # Absent) => pc'[LOOP] # pc[LOOP]]_vars

\* C22: the status of a job record is running, done or error, and once it is done or
\* error it never changes again, in /api/send and in /api/send_async, also when the
\* backend fails after fragments were received
C22_StatusSettlesOnce ==
    /\ [](\A r \in Jobs : JobOf(r).status \in {"running", "done", "error"})
    /\ [][\A r \in Jobs :
            JobOf(r).status \in {"done", "error"} => JobOf(r)'.status = JobOf(r).status]_vars

\* C23: when the model call of a request raised, the job record of the request ends with
\* status error and the exception's message as its error, the text of the error event
\* of /api/send, whether or not a fragment had been received
C23_FailureIsRecorded ==
    \A r \in Jobs :
        (reqs[r].raised /\ pc[r] = "done") =>
            /\ JobOf(r).status = "error"
            /\ JobOf(r).error = reqs[r].err[1]
            /\ \A i \in 1..Len(reqs[r].out) :
                  reqs[r].out[i].type = "error" => reqs[r].out[i].text = JobOf(r).error

FinalOf(r) == CHOOSE e \in {reqs[r].out[i] : i \in 1..Len(reqs[r].out)} : e.type = "final"

\* C24: when the accumulated output holds a thinking segment, the answer of the final
\* event of /api/send is the answer split_thinking extracts, which is the answer of the
\* job record; the answer of the final event is the raw text only when no thinking
\* segment was found
C24_FinalAnswerExtracted ==
    \A r \in Streams \cap Jobs :
        HasEvent(r, "final") =>
            LET final == FinalOf(r)
                extracted == split_thinking(final.raw)
            IN  /\ extracted.has_thinking =>
                      /\ final.answer = extracted.answer
                      /\ final.answer = JobOf(r).answer
                /\ final.answer = final.raw => ~extracted.has_thinking

\* the place of the first event of a type and text in the stream, 0 when there is none
PlaceOf(r, type, text) ==
    LET at == {i \in 1..Len(reqs[r].out) :
                  reqs[r].out[i].type = type /\ reqs[r].out[i].text = text}
    IN  IF at = {} THEN 0 ELSE CHOOSE i \in at : \A j \in at : i <= j

\* C25: the status updates pushed during a /api/send request reach the client as events
\* of type status before the terminal event: a closed stream holds the status event
\* "Preparing request" ahead of its last event
C25_StatusDelivered ==
    \A r \in Streams :
        (reqs[r].kind = "sync" /\ reqs[r].cpc = "closed") =>
            /\ PlaceOf(r, "status", <<"Preparing request">>) > 0
            /\ PlaceOf(r, "status", <<"Preparing request">>) < Len(reqs[r].out)

\* C26: sessions with different identifiers are independent in storage: while a handler
\* works for one session (get_state, save_session, send, upload), its steps leave the
\* session file of every other session of memory as it is
C26_OtherFileUntouched ==
    [][\A id \in DOMAIN StateMap :
          (/\ lp.op # "none"
           /\ StateMap[id] # lp.obj
           /\ pc'[LOOP] # pc[LOOP]) =>
              files'[session_path(id)] = files[session_path(id)]]_vars

\* C27: in the state dict that holds its job, a request id is in pending_requests
\* while its worker has not reached the block that ends the job, and is not in
\* pending_requests once the worker has finished, whether the job ended as done
\* or as error, for the synchronous and for the asynchronous worker.
PendingOf(r) == heap[reqs[r].obj]["pending_requests"]
WorkerRunning(r) == pc[r] \in {"w_start", "w_read", "w_except", "w_finally",
                               "a_start", "a_read", "a_done", "a_except"}
C27_PendingWhileRunning ==
    \A r \in Jobs :
        /\ WorkerRunning(r) => Has(PendingOf(r), r)
        /\ pc[r] = "done" => ~Has(PendingOf(r), r)
C27_Witness ==
    \E r \in Jobs : /\ pc[r] = "done" /\ reqs[r].raised
                    /\ JobOf(r).status = "error" /\ ~Has(PendingOf(r), r)

\* C28: a step of /api/send or /api/send_async whose prompt is empty or blank, or
\* whose session_id is empty, is the 400 rejection and changes nothing: no state
\* in memory, no file, no history turn, no job or pending request, no worker.
Blank(prompt) == \A i \in 1..Len(prompt) : prompt[i] = " "
C28_RejectionChangesNothing ==
    [][\A i \in SessionIds \cup {<< >>}, p \in Prompts, u \in BOOLEAN, l \in Locations, f \in BOOLEAN :
          (/\ Blank(p) \/ i = << >>
           /\ SendBegin(i, p, u, l, f) \/ SendAsyncBegin(i, p, u, l, f)) =>
              UNCHANGED <<heap, StateMap, files, tmps, pc, sv, lp, reqs, current_state>>]_vars
C28_Witness ==
    /\ scope.app = "routes" /\ calls = 1 /\ deleted = {}
    /\ heap = << >> /\ StateMap = EmptyDict /\ reqs = << >>
    /\ pc[LOOP] = "idle" /\ \A n \in FileNames : files[n] = Absent

\* C29: the user_location of a state dict changes only in the step of send or
\* send_async that applies a payload with a non-null location; it becomes that
\* location when the location has both lat and lon, and null otherwise.  A
\* payload without a location leaves it as it was.
Applying == pc[LOOP] \in {"send_mutate", "async_mutate"}
Located(location) ==
    IF Has(location[1], "lat") /\ Has(location[1], "lon") THEN location ELSE None
C29_LocationFrame ==
    [][/\ \A o \in 1..Len(heap) :
            heap'[o]["user_location"] # heap[o]["user_location"] =>
                /\ Applying /\ pc'[LOOP] # pc[LOOP] /\ lp.obj = o
                /\ lp.location # None
       /\ (Applying /\ pc'[LOOP] # pc[LOOP] /\ lp.location # None) =>
             heap'[lp.obj]["user_location"] = Located(lp.location)]_vars
C29_Witness ==
    /\ pc[LOOP] \in {"send_job", "async_start"}
    /\ lp.location = None
    /\ heap[lp.obj]["user_location"] = PLoc

\* C30: get_ollama_endpoint never waits for the local daemon beyond the grace
\* period: the time it has spent in the grace loop, the sleeps and the probes
\* together, stays within LOCAL_STARTUP_GRACE_S.
C30_WaitsWithinGrace ==
    call.fn = "get_ollama_endpoint" => call.waited <= LOCAL_STARTUP_GRACE_S

====
